---- MODULE Spec2Model ----
(***************************************************************************)
(* tiled2tscn, src/src/converter/core.py: Tilemap, Tileset, TiledUtil and  *)
(* Convert, as a state machine over one input document.                    *)
(*                                                                         *)
(* A Python str is a sequence of one-character strings.  A Python int that *)
(* comes out of int(str) is a record [ok, neg, hi, lo] of value            *)
(* (-1)^neg * (hi * 65536 + lo): cell tokens use all 32 bits, more than a  *)
(* checker integer holds.  An optional value (None or x) is <<>> or <<x>>. *)
(***************************************************************************)
EXTENDS Integers, Sequences, FiniteSets, TLC

(* ------------------------------ bounds -------------------------------- *)
\* most tilesets a generated tile-map document declares
MaxSets == 2
\* most tokens on a line of a generated csv payload
MaxRowLen == 2
\* most collision objects on a tile of a generated tileset document
MaxObjects == 2
\* most rows of a generated csv grid
MaxRows == 2
\* most layer elements of a generated tile-map document
MaxLayers == 2
\* the most items of the map list and of the destination list of the window
MaxMaps == 2
MaxDestinations == 2

(* --------------------------- Python strings --------------------------- *)
None == <<>>
Some(x) == <<x>>

Limb == 256 * 256

Whitespace == {" ", "\n", "\t", "\r"}

DigitVal(c) ==
  CASE c = "0" -> 0 [] c = "1" -> 1 [] c = "2" -> 2 [] c = "3" -> 3
    [] c = "4" -> 4 [] c = "5" -> 5 [] c = "6" -> 6 [] c = "7" -> 7
    [] c = "8" -> 8 [] c = "9" -> 9 [] OTHER -> -1

DigitChar(d) ==
  CASE d = 0 -> "0" [] d = 1 -> "1" [] d = 2 -> "2" [] d = 3 -> "3"
    [] d = 4 -> "4" [] d = 5 -> "5" [] d = 6 -> "6" [] d = 7 -> "7"
    [] d = 8 -> "8" [] d = 9 -> "9"

RECURSIVE Dec(_)
\* str(n) for n >= 0: the decimal text of an attribute or token
Dec(n) == IF n < 10 THEN <<DigitChar(n)>> ELSE Dec(n \div 10) \o <<DigitChar(n % 10)>>

\* the decimal text of -n
Neg(n) == <<"-">> \o Dec(n)

RECURSIVE DecBig(_, _)
\* the decimal text of hi * 65536 + lo (a cell token with flip bits set)
DecBig(hi, lo) ==
  IF hi = 0 THEN Dec(lo)
  ELSE LET v == (hi % 10) * Limb + lo
       IN  DecBig(hi \div 10, v \div 10) \o <<DigitChar(v % 10)>>

RECURSIVE LStrip(_)
LStrip(s) == IF s # <<>> /\ Head(s) \in Whitespace THEN LStrip(Tail(s)) ELSE s

RECURSIVE RStrip(_)
RStrip(s) ==
  IF s # <<>> /\ s[Len(s)] \in Whitespace THEN RStrip(SubSeq(s, 1, Len(s) - 1)) ELSE s

\* str.strip()
Strip(s) == RStrip(LStrip(s))

RECURSIVE SplitAcc(_, _, _)
SplitAcc(s, sep, cur) ==
  IF s = <<>> THEN <<cur>>
  ELSE IF Head(s) = sep THEN <<cur>> \o SplitAcc(Tail(s), sep, <<>>)
  ELSE SplitAcc(Tail(s), sep, Append(cur, Head(s)))

\* str.split(sep) for a one-character separator: never empty, "" gives [""]
Split(s, sep) == SplitAcc(s, sep, <<>>)

\* str.endswith(suffix)
EndsWith(s, suffix) ==
  /\ Len(s) >= Len(suffix)
  /\ SubSeq(s, Len(s) - Len(suffix) + 1, Len(s)) = suffix

\* n * c
Repeat(c, n) == IF n <= 0 THEN <<>> ELSE [i \in 1..n |-> c]

(* ---------------------------- Python ints ----------------------------- *)
NotInt == [ok |-> FALSE, neg |-> FALSE, hi |-> 0, lo |-> 0]

RECURSIVE ParseDigits(_, _, _)
ParseDigits(s, hi, lo) ==
  IF s = <<>> THEN [ok |-> TRUE, neg |-> FALSE, hi |-> hi, lo |-> lo]
  ELSE IF DigitVal(Head(s)) < 0 THEN NotInt
  ELSE LET v == lo * 10 + DigitVal(Head(s))
       IN  ParseDigits(Tail(s), hi * 10 + v \div Limb, v % Limb)

\* int(s): surrounding whitespace, an optional sign, at least one digit;
\* ok = FALSE is the ValueError
PyInt(s) ==
  LET t == Strip(s)
      signed == t # <<>> /\ Head(t) \in {"-", "+"}
      body == IF signed THEN Tail(t) ELSE t
      mag == ParseDigits(body, 0, 0)
  IN  IF body = <<>> \/ ~mag.ok THEN NotInt
      ELSE [mag EXCEPT !.neg = signed /\ Head(t) = "-" /\ (mag.hi # 0 \/ mag.lo # 0)]

\* the value of a parsed int that fits a checker integer
IntOf(v) == (IF v.neg THEN -1 ELSE 1) * (v.hi * Limb + v.lo)

RECURSIVE BitsOf(_)
BitsOf(n) == IF n = 0 THEN <<>> ELSE BitsOf(n \div 2) \o <<DigitChar(n % 2)>>

\* f"{v:b}": the binary digits of v, no leading zero, "-" first when negative
BinStr(v) ==
  LET low == BitsOf(v.lo)
      mag == IF v.hi = 0 THEN (IF v.lo = 0 THEN <<"0">> ELSE low)
             ELSE BitsOf(v.hi) \o Repeat("0", 16 - Len(low)) \o low
  IN  IF v.neg THEN <<"-">> \o mag ELSE mag

RECURSIVE Base2Acc(_, _, _)
Base2Acc(s, acc, sign) ==
  IF s = <<>> THEN acc ELSE Base2Acc(Tail(s), acc * 2 + sign * DigitVal(Head(s)), sign)

\* int(s, 2) of a text of binary digits with an optional sign
IntBase2(s) ==
  IF s # <<>> /\ Head(s) = "-" THEN Base2Acc(Tail(s), 0, -1) ELSE Base2Acc(s, 0, 1)
(* --------------------------- xml documents ---------------------------- *)
\* {property.attrib["name"]: property.attrib["value"] for property in element}
\* followed by dict.get(key): the value of the last property of that name
DictGet(properties, key) ==
  LET hits == {i \in 1..Len(properties) : properties[i].name = key}
  IN  IF hits = {} THEN None
      ELSE Some(properties[CHOOSE i \in hits : \A j \in hits : j <= i].value)

\* Python truth of dict.get(key): present and not the empty string
Truthy(opt) == opt # None /\ opt[1] # <<>>

\* os.path.split(path)[1]
Basename(path) == LET parts == Split(path, "/") IN parts[Len(parts)]

RECURSIVE NormParts(_, _)
NormParts(parts, acc) ==
  IF parts = <<>> THEN acc
  ELSE LET h == Head(parts)
       IN  IF h = <<>> \/ h = <<".">> THEN NormParts(Tail(parts), acc)
           ELSE IF h = <<".", ".">> /\ acc # <<>> /\ acc[Len(acc)] # <<".", ".">>
                THEN NormParts(Tail(parts), SubSeq(acc, 1, Len(acc) - 1))
           ELSE NormParts(Tail(parts), Append(acc, h))

RECURSIVE JoinParts(_)
JoinParts(parts) ==
  IF parts = <<>> THEN <<>>
  ELSE IF Len(parts) = 1 THEN parts[1]
  ELSE parts[1] \o <<"/">> \o JoinParts(Tail(parts))

\* os.path.normpath of a relative posix path
NormPath(path) ==
  LET parts == NormParts(Split(path, "/"), <<>>)
  IN  IF parts = <<>> THEN <<".">> ELSE JoinParts(parts)

(* ----------------------------- TiledUtil ------------------------------ *)
\* TiledUtil.square_to_points(x, y, square)
square_to_points(x, y, square) ==
  LET width == IntOf(PyInt(square.width[1]))
      height == IntOf(PyInt(square.height[1]))
  IN  << <<0, 0>>, <<0, width - x>>, <<height - y, width - x>>, <<height - y, 0>> >>

\* TiledUtil.object_to_points(x, y, points_str)
object_to_points(x, y, points_str) ==
  LET pts == Split(points_str, " ")
  IN  [i \in 1..Len(pts) |->
         << IntOf(PyInt(Split(pts[i], ",")[1])) + x,
            IntOf(PyInt(Split(pts[i], ",")[2])) + y >>]

(* ------------------------------ Tileset ------------------------------- *)
\* the objects of every tile with a non-empty objectgroup, in document order
RECURSIVE TileObjects(_)
TileObjects(tiles) ==
  IF tiles = <<>> THEN <<>>
  ELSE LET tile == Head(tiles)
           own == IF tile.objectgroup = None THEN <<>>
                  ELSE [k \in 1..Len(tile.objectgroup[1]) |->
                          [tile |-> tile.id, object |-> tile.objectgroup[1][k]]]
       IN  own \o TileObjects(Tail(tiles))

\* the body of "for object in objectgroup" for the object_id-th object
ShapeOf(entry, object_id) ==
  LET object == entry.object
      x == IntOf(PyInt(object.x))
      y == IntOf(PyInt(object.y))
  IN  IF object.width # None
      THEN [err |-> IF object.height = None THEN "KeyError" ELSE "",
            shape |-> IF object.height = None THEN <<>>
                      ELSE <<IntOf(PyInt(entry.tile)), object_id,
                             square_to_points(x, y, object)>>]
      ELSE IF object.children = <<>>
      THEN [err |-> "IndexError", shape |-> <<>>]
      ELSE IF object.children[1].points = None
      THEN [err |-> "KeyError", shape |-> <<>>]
      ELSE [err |-> "", shape |-> <<IntOf(PyInt(entry.tile)), object_id,
                                    object_to_points(x, y, object.children[1].points[1])>>]

RECURSIVE GrabShapes(_, _, _)
\* "Grab shapes": the shapes list, or the exception that ends the load
GrabShapes(entries, object_id, shapes) ==
  IF entries = <<>> THEN [err |-> "", shapes |-> shapes]
  ELSE LET r == ShapeOf(Head(entries), object_id + 1)
       IN  IF r.err # "" THEN [err |-> r.err, shapes |-> <<>>]
           ELSE GrabShapes(Tail(entries), object_id + 1, Append(shapes, r.shape))

\* raise(ConversionError(msg)) for a constant msg, for a msg that ends with
\* the interpolated "{arg}", and the exceptions Python itself raises; the
\* message is all a ConversionError carries
ConversionError(msg) == [type |-> "ConversionError", msg |-> msg, arg |-> None]
ConversionErrorNaming(msg, arg) == [type |-> "ConversionError", msg |-> msg, arg |-> Some(arg)]
Raised(type) == [type |-> type, msg |-> "", arg |-> None]
NoError == [type |-> "", msg |-> "", arg |-> None]

NoTileset ==
  [name |-> <<>>, tile_size |-> <<0, 0>>, tile_count |-> 0, columns |-> 0,
   image_path |-> <<>>, full_image_path |-> <<>>, image |-> <<>>, shapes |-> <<>>]

\* the tile count without the hva:tiles override
TileCountDeclared(tsx) == PyInt(tsx.tilecount)

\* the effective tile_count of "Grab primary root attributes" and
\* "Grab properties": ok = FALSE is the caught ValueError
TileCount(tsx) ==
  LET declared == PyInt(tsx.tilecount)
      override == IF tsx.properties = None THEN None
                  ELSE DictGet(tsx.properties[1], "hva:tiles")
  IN  IF Truthy(override) THEN PyInt(override[1]) ELSE declared

\* Tileset.__init__ with the file type tested before the existence
TilesetTypeFirst(tsx) ==
  LET count == TileCount(tsx)
      grabbed == GrabShapes(TileObjects(tsx.tiles), 0, <<>>)
      fail(e) == [err |-> e, tileset |-> NoTileset]
  IN  IF ~EndsWith(tsx.source, <<".", "t", "s", "x">>)
      THEN fail(ConversionError("Tileset file must be .tsx format"))
      ELSE IF ~tsx.exists THEN fail(ConversionError("Tileset file cannot be found"))
      ELSE IF ~count.ok
      THEN fail(ConversionErrorNaming("Property \"hva:tiles\" in Tileset must be a number",
                                      tsx.name))
      ELSE IF grabbed.err # "" THEN fail(Raised(grabbed.err))
      ELSE [err |-> NoError,
            tileset |->
              [name |-> tsx.name,
               tile_size |-> <<IntOf(PyInt(tsx.tilewidth)), IntOf(PyInt(tsx.tileheight))>>,
               tile_count |-> IntOf(count),
               columns |-> IntOf(PyInt(tsx.columns)),
               image_path |-> tsx.image,
               full_image_path |-> NormPath(tsx.image),
               image |-> NormPath(Basename(tsx.image)),
               shapes |-> grabbed.shapes]]

\* Tileset.__init__(filepath): [err, tileset]
Tileset(tsx) ==
  LET count == TileCount(tsx)
      grabbed == GrabShapes(TileObjects(tsx.tiles), 0, <<>>)
      fail(e) == [err |-> e, tileset |-> NoTileset]
  IN  IF ~tsx.exists THEN fail(ConversionError("Tileset file cannot be found"))
      ELSE IF ~EndsWith(tsx.source, <<".", "t", "s", "x">>)
      THEN fail(ConversionError("Tileset file must be .tsx format"))
      ELSE IF ~count.ok
      THEN fail(ConversionErrorNaming("Property \"hva:tiles\" in Tileset must be a number",
                                      tsx.name))
      ELSE IF grabbed.err # "" THEN fail(Raised(grabbed.err))
      ELSE [err |-> NoError,
            tileset |->
              [name |-> tsx.name,
               tile_size |-> <<IntOf(PyInt(tsx.tilewidth)), IntOf(PyInt(tsx.tileheight))>>,
               tile_count |-> IntOf(count),
               columns |-> IntOf(PyInt(tsx.columns)),
               image_path |-> tsx.image,
               full_image_path |-> NormPath(tsx.image),
               image |-> NormPath(Basename(tsx.image)),
               shapes |-> grabbed.shapes]]

(* ------------------------ tile-cell decoding -------------------------- *)
\* tile_byte = (32 - len(f"{tile:b}")) * "0" + f"{tile:b}"
TileByte(tile) == Repeat("0", 32 - Len(BinStr(tile))) \o BinStr(tile)

\* the table with the codes of 101 and 110 exchanged
tiled_to_godot_flags_exchanged(key) ==
  CASE key = <<"0","0","0">> -> <<"0","0","0">>
    [] key = <<"1","0","1">> -> <<"0","1","1">>
    [] key = <<"1","1","0">> -> <<"-","0","1","1">>
    [] key = <<"0","1","1">> -> <<"-","0","1","0">>
    [] key = <<"1","0","0">> -> <<"0","0","1">>
    [] key = <<"1","1","1">> -> <<"-","0","0","1">>
    [] key = <<"0","1","0">> -> <<"0","1","0">>
    [] key = <<"0","0","1">> -> <<"-","1","0","0">>

tiled_to_godot_flags(key) ==
  CASE key = <<"0","0","0">> -> <<"0","0","0">>
    [] key = <<"1","0","1">> -> <<"-","0","1","1">>
    [] key = <<"1","1","0">> -> <<"0","1","1">>
    [] key = <<"0","1","1">> -> <<"-","0","1","0">>
    [] key = <<"1","0","0">> -> <<"0","0","1">>
    [] key = <<"1","1","1">> -> <<"-","0","0","1">>
    [] key = <<"0","1","0">> -> <<"0","1","0">>
    [] key = <<"0","0","1">> -> <<"-","1","0","0">>

\* the flag bits followed by 28 zeros instead of 29
RotationValueShort(tile_byte) ==
  IntBase2(tiled_to_godot_flags(SubSeq(tile_byte, 1, 3)) \o Repeat("0", 28))

\* rotation_value = int(tiled_to_godot_flags[tile_byte[0:3]] + "0" * 29, 2)
RotationValue(tile_byte) ==
  IntBase2(tiled_to_godot_flags(SubSeq(tile_byte, 1, 3)) \o Repeat("0", 29))

\* tile_value = int(tile_byte[3:], 2)
TileValue(tile_byte) == IntBase2(SubSeq(tile_byte, 4, Len(tile_byte)))

\* tile_value in range(firstgid, firstgid + tileset.tile_count)
InRange(tile_value, entry) ==
  entry[2] <= tile_value /\ tile_value < entry[2] + entry[1].tile_count

RECURSIVE FindGlobalTileNoOffset(_, _, _, _, _)
\* the loop without optimized_firstgid in the sum
FindGlobalTileNoOffset(list, i, tile_value, rotation_value, before) ==
  IF i > Len(list) THEN before
  ELSE IF InRange(tile_value, list[i])
       THEN Some(tile_value - list[i][2] + 1 + rotation_value)
  ELSE FindGlobalTileNoOffset(list, i + 1, tile_value, rotation_value, Some(0))

RECURSIVE FindGlobalTile(_, _, _, _, _)
\* "Find tile id relative to tileset via firstgid": what global_tile holds
\* after the for loop, given what it held before (None when never assigned)
FindGlobalTile(list, i, tile_value, rotation_value, before) ==
  IF i > Len(list) THEN before
  ELSE IF InRange(tile_value, list[i])
       THEN Some(tile_value - list[i][2] + 1 + list[i][3] + rotation_value)
  ELSE FindGlobalTile(list, i + 1, tile_value, rotation_value, Some(0))

RECURSIVE SumFirstGid(_)
\* the sum taken over fg, the first gids, in place of the tile counts
SumFirstGid(list) == IF list = <<>> THEN 0 ELSE list[1][2] + SumFirstGid(Tail(list))

\* sum([tileset.tile_count for tileset, fg, ofg in self.tileset_list])
RECURSIVE SumTileCount(_)
SumTileCount(list) ==
  IF list = <<>> THEN 0 ELSE list[1][1].tile_count + SumTileCount(Tail(list))
\* a text int(s, 2) accepts: an optional sign, then binary digits
IsBase2(s) ==
  LET body == IF s # <<>> /\ Head(s) \in {"-", "+"} THEN Tail(s) ELSE s
  IN  body # <<>> /\ \A i \in 1..Len(body) : body[i] \in {"0", "1"}

(* ------------------------------ Convert ------------------------------- *)
\* the factor of row_id in the position of a cell of tile_data
PositionStride == 65536

LowerChar(c) ==
  CASE c = "A" -> "a" [] c = "B" -> "b" [] c = "C" -> "c" [] c = "D" -> "d"
    [] c = "E" -> "e" [] c = "F" -> "f" [] c = "G" -> "g" [] c = "H" -> "h"
    [] c = "I" -> "i" [] c = "J" -> "j" [] c = "K" -> "k" [] c = "L" -> "l"
    [] c = "M" -> "m" [] c = "N" -> "n" [] c = "O" -> "o" [] c = "P" -> "p"
    [] c = "Q" -> "q" [] c = "R" -> "r" [] c = "S" -> "s" [] c = "T" -> "t"
    [] c = "U" -> "u" [] c = "V" -> "v" [] c = "W" -> "w" [] c = "X" -> "x"
    [] c = "Y" -> "y" [] c = "Z" -> "z" [] OTHER -> c

\* str.lower()
Lower(s) == [i \in 1..Len(s) |-> LowerChar(s[i])]

\* "Add set image to tres": one ext_resource per set, ids 1..len(sets)
ExtResources(sets) == [i \in 1..Len(sets) |-> [id |-> i, path |-> sets[i].image]]

\* the flat coordinate list of a shape: x0, y0, x1, y1, ...
PointsList(points) ==
  [i \in 1..(2 * Len(points)) |-> points[(i + 1) \div 2][IF i % 2 = 1 THEN 1 ELSE 2]]

\* tile_objects.get(key)
TileObjectsGet(tile_objects, key) ==
  IF key \in DOMAIN tile_objects THEN Some(tile_objects[key]) ELSE None

\* tile_objects[key] = value
TileObjectsSet(tile_objects, key, value) ==
  [k \in DOMAIN tile_objects \cup {key} |-> IF k = key THEN value ELSE tile_objects[k]]

\* the dict keys of the collision step: the tuple (set_id, tile) the entries
\* are stored under, and the bare tile id the lookup of line 276 asks for
IntKey(tile) == <<tile>>
\* the tuple key with the position of the first set whatever the set is
TupleKeyFirstSet(set_id, tile) == <<0, tile>>
TupleKey(set_id, tile) == <<set_id, tile>>

\* the entry stored with the id the next sub_resource will get
CollisionEntryNextId(tile_objects, set_id, shapes, sub_resource_id) ==
  TileObjectsSet(tile_objects, TupleKey(set_id, shapes[1]), <<sub_resource_id + 1>>)

\* the body of "for shapes in set.shapes" after sub_resource_id += 1
CollisionEntry(tile_objects, set_id, shapes, sub_resource_id) ==
  IF TileObjectsGet(tile_objects, IntKey(shapes[1])) # None
  THEN TileObjectsSet(tile_objects, TupleKey(set_id, shapes[1]),
                      Append(tile_objects[TupleKey(set_id, shapes[1])], sub_resource_id))
  ELSE TileObjectsSet(tile_objects, TupleKey(set_id, shapes[1]), <<sub_resource_id>>)

RECURSIVE CollisionStepFromZero(_, _, _, _)
\* the collision step with sub_resource_id incremented after its use
CollisionStepFromZero(pairs, sub_resource_id, sub_resources, tile_objects) ==
  IF pairs = <<>>
  THEN [sub_resource_id |-> sub_resource_id, sub_resources |-> sub_resources,
        tile_objects |-> tile_objects]
  ELSE LET set_id == Head(pairs)[1]
           shapes == Head(pairs)[2]
           id == sub_resource_id
       IN  CollisionStepFromZero(Tail(pairs), id + 1,
             Append(sub_resources, [id |-> id, points |-> PointsList(shapes[3])]),
             CollisionEntry(tile_objects, set_id, shapes, id))

RECURSIVE CollisionStep(_, _, _, _)
\* "Object collision step" over the (set_id, shape) pairs in loop order:
\* [sub_resource_id, sub_resources, tile_objects]
CollisionStep(pairs, sub_resource_id, sub_resources, tile_objects) ==
  IF pairs = <<>>
  THEN [sub_resource_id |-> sub_resource_id, sub_resources |-> sub_resources,
        tile_objects |-> tile_objects]
  ELSE LET set_id == Head(pairs)[1]
           shapes == Head(pairs)[2]
           id == sub_resource_id + 1
       IN  CollisionStep(Tail(pairs), id,
             Append(sub_resources, [id |-> id, points |-> PointsList(shapes[3])]),
             CollisionEntry(tile_objects, set_id, shapes, id))

RECURSIVE ShapePairs(_, _)
\* for set_id, set in enumerate(sets): for shapes in set.shapes
ShapePairs(sets, set_id) ==
  IF set_id >= Len(sets) THEN <<>>
  ELSE [k \in 1..Len(sets[set_id + 1].shapes) |-> <<set_id, sets[set_id + 1].shapes[k]>>]
       \o ShapePairs(sets, set_id + 1)

\* the tile record with the column and the row of the region exchanged
TileRecordTransposed(set, set_id, set_tile_id, tile_id, tile_objects) ==
  LET tile_width == set.tile_size[1]
      tile_height == set.tile_size[2]
      x == set_tile_id \div set.columns
      y == set_tile_id % set.columns
      found == TileObjectsGet(tile_objects, TupleKey(set_id, set_tile_id))
      has_collision == found # None
  IN  [id |-> tile_id,
       name |-> tile_id,
       texture |-> set_id + 1,
       region |-> <<x * tile_width, y * tile_height, tile_width, tile_height>>,
       shape |-> IF has_collision THEN Some(found[1][1]) ELSE None,
       shapes |-> IF has_collision THEN found[1] ELSE <<>>]

\* the tile record of tile set_tile_id of set set_id, written as tile_id
TileRecord(set, set_id, set_tile_id, tile_id, tile_objects) ==
  LET tile_width == set.tile_size[1]
      tile_height == set.tile_size[2]
      x == set_tile_id % set.columns
      y == set_tile_id \div set.columns
      found == TileObjectsGet(tile_objects, TupleKey(set_id, set_tile_id))
      has_collision == found # None
  IN  [id |-> tile_id,
       name |-> tile_id,
       texture |-> set_id + 1,
       region |-> <<x * tile_width, y * tile_height, tile_width, tile_height>>,
       shape |-> IF has_collision THEN Some(found[1][1]) ELSE None,
       shapes |-> IF has_collision THEN found[1] ELSE <<>>]

RECURSIVE TileStepPerSet(_, _, _, _)
\* the tile step with total_tiles set back to 0 at every set
TileStepPerSet(sets, set_id, total_tiles, tile_objects) ==
  IF set_id >= Len(sets) THEN <<>>
  ELSE LET set == sets[set_id + 1]
           n == IF set.tile_count > 0 THEN set.tile_count ELSE 0
       IN  [k \in 1..n |-> TileRecord(set, set_id, k - 1, k, tile_objects)]
           \o TileStepPerSet(sets, set_id + 1, 0, tile_objects)

RECURSIVE TileStep(_, _, _, _)
\* "Tile step": the tile records of sets[set_id ..], total_tiles written so far
TileStep(sets, set_id, total_tiles, tile_objects) ==
  IF set_id >= Len(sets) THEN <<>>
  ELSE LET set == sets[set_id + 1]
           n == IF set.tile_count > 0 THEN set.tile_count ELSE 0
       IN  [k \in 1..n |-> TileRecord(set, set_id, k - 1, total_tiles + k, tile_objects)]
           \o TileStep(sets, set_id + 1, total_tiles + n, tile_objects)

RECURSIVE FlattenRowKeepZeros(_, _, _)
\* the inner loop without the test tile != 0
FlattenRowKeepZeros(row, row_id, tile_id) ==
  IF tile_id >= Len(row) THEN <<>>
  ELSE << <<tile_id + (row_id * PositionStride), row[tile_id + 1], 0>> >>
       \o FlattenRowKeepZeros(row, row_id, tile_id + 1)

RECURSIVE FlattenRow(_, _, _)
\* the inner while loop of "Flatten layer array", from tile_id on
FlattenRow(row, row_id, tile_id) ==
  IF tile_id >= Len(row) THEN <<>>
  ELSE (IF row[tile_id + 1] # 0
        THEN << <<tile_id + (row_id * PositionStride), row[tile_id + 1], 0>> >>
        ELSE <<>>)
       \o FlattenRow(row, row_id, tile_id + 1)

RECURSIVE FlattenLayer(_, _)
\* the outer while loop of "Flatten layer array", from row_id on
FlattenLayer(layer_data, row_id) ==
  IF row_id >= Len(layer_data) THEN <<>>
  ELSE FlattenRow(layer_data[row_id + 1], row_id, 0) \o FlattenLayer(layer_data, row_id + 1)
(* ------------------------- the input documents ------------------------ *)
RECURSIVE JoinWith(_, _)
\* sep.join(parts), the writer's side of str.split
JoinWith(parts, sep) ==
  IF parts = <<>> THEN <<>>
  ELSE IF Len(parts) = 1 THEN parts[1]
  ELSE parts[1] \o <<sep>> \o JoinWith(Tail(parts), sep)

\* every sequence over S of length lo..hi
SeqsOf(S, lo, hi) == UNION {[1..n -> S] : n \in lo..hi}

Property(name, value) == [name |-> name, value |-> value]

\* a <tile id=..> element; objectgroup is None or the list of its objects
TileElement(id, objectgroup) == [id |-> Dec(id), objectgroup |-> objectgroup]

\* <object x y width height/>
RectObject(x, y, width, height) ==
  [x |-> Dec(x), y |-> Dec(y), width |-> Some(Dec(width)), height |-> Some(Dec(height)),
   children |-> <<>>]

\* <object x y><polygon points=.../></object>
PolygonObject(x, y, points) ==
  [x |-> Dec(x), y |-> Dec(y), width |-> None, height |-> None,
   children |-> <<[points |-> Some(points)]>>]

\* a .tsx document as Tileset.__init__ reads it
TsxDoc(size, tilecount, columns, properties, image, tiles) ==
  [exists |-> TRUE, source |-> <<"s", ".", "t", "s", "x">>, name |-> "set",
   tilewidth |-> Dec(size[1]), tileheight |-> Dec(size[2]),
   tilecount |-> Dec(tilecount), columns |-> Dec(columns),
   properties |-> properties, image |-> image, tiles |-> tiles]

\* <tileset firstgid=.. source=../> of the .tmx, with the document it names
TilesetRef(firstgid, tsx) == [firstgid |-> Dec(firstgid), tsx |-> tsx]

\* <layer name=..><data encoding=..>text</data></layer>
LayerElement(name, encoding, text) ==
  [name |-> name, data |-> Some([encoding |-> encoding, text |-> text])]

\* the csv payload of rows of tokens; tiled = TRUE writes it as the editor
\* does: a newline at both ends and a comma after every line but the last
Csv(rows, tiled) ==
  LET line(i) == JoinWith(rows[i], ",")
                 \o (IF tiled /\ i < Len(rows) THEN <<",">> ELSE <<>>)
      body == JoinWith([i \in 1..Len(rows) |-> line(i)], "\n")
  IN  IF tiled THEN <<"\n">> \o body \o <<"\n">> ELSE body

\* a .tmx document as Tilemap.__init__ reads it
TmxDoc(exists, path, properties, tilesets, layers) ==
  [exists |-> exists, path |-> path, tilewidth |-> Dec(16), tileheight |-> Dec(16),
   properties |-> properties, tilesets |-> tilesets, layers |-> layers]

TmxPath == <<"m", ".", "t", "m", "x">>
ImageA == <<"i", "m", "g", "/", "a", ".", "p", "n", "g">>
ImageB == <<".", "/", "b", ".", "p", "n", "g">>

GoodProperties ==
  Some(<<Property("hva:name", <<"M", "a", "p">>), Property("hva:mode", <<"D", "m">>)>>)

\* the tile counts a tileset declares and overrides: 2 declared; hva:tiles
\* absent, 3, 0 or -1
CountChoices ==
  { None, Some(<<Property("hva:tiles", Dec(3))>>), Some(<<Property("hva:tiles", Dec(0))>>),
    Some(<<Property("hva:tiles", Neg(1))>>) }

FirstGids == {0, 1, 3}

PlainSet(properties) == TsxDoc(<<16, 16>>, 2, 2, properties, ImageA, <<>>)

\* tileset declarations that differ in first gid and effective tile count
CountedRefs == {TilesetRef(g, PlainSet(p)) : g \in FirstGids, p \in CountChoices}

\* a cell token of flip triple f (0..7) and raw tile value low (< 65536):
\* f * 2^29 + low, written in decimal
Token(f, low) == DecBig(f * 8192, low)

\* cell tokens without flip bits, with each of the 7 flip triples, and two
\* that are no integer
PlainTokens == {Token(0, n) : n \in {0, 1, 2, 3, 5}}
FlippedTokens == {Token(f, low) : f \in 1..7, low \in {0, 2}}
NonIntTokens == {<<>>, <<"x">>}
Tokens == PlainTokens \cup FlippedTokens \cup NonIntTokens

\* the tokens of the many tileset lists, and of the longer rows
FewTokens == {Token(0, 0), Token(0, 1), Token(0, 3), Token(3, 0), Token(6, 2)}
RowTokens == {Token(0, 0), Token(0, 1), Token(0, 3), Token(1, 0), Token(6, 2), <<"x">>}

\* the rows of MaxRowLen cells of a grid: all 0 but at most one, which is 1 or 2
GridRows ==
  { [c \in 1..MaxRowLen |-> IF c = at THEN Token(0, v) ELSE Token(0, 0)] :
      at \in 0..MaxRowLen, v \in {1, 2} }

OneLayer(rows, tiled) == <<LayerElement("ground", Some("csv"), Csv(rows, tiled))>>

Map(tilesets, layers) == TmxDoc(TRUE, TmxPath, GoodProperties, tilesets, layers)

\* every list of declared tilesets, one cell
DocsRanges(d) ==
  \E sets \in SeqsOf(CountedRefs, 0, MaxSets), t \in FewTokens :
    d = Map(sets, OneLayer(<<<<t>>>>, FALSE))

\* two tilesets of 2 and 3 tiles whose source ranges leave gid 3 out
TwoSets ==
  << TilesetRef(1, PlainSet(None)),
     TilesetRef(4, PlainSet(Some(<<Property("hva:tiles", Dec(3))>>))) >>

\* no tileset or two, one row: every token alone, the few in longer rows
DocsRows(d) ==
  \E sets \in {<<>>, TwoSets},
     row \in SeqsOf(Tokens, 1, 1) \cup SeqsOf(RowTokens, 2, MaxRowLen) :
    d = Map(sets, OneLayer(<<row>>, FALSE))

\* one tileset of 4 tiles at first gid 1
FourTiles == <<TilesetRef(1, TsxDoc(<<16, 16>>, 4, 2, None, ImageA, <<>>))>>

\* grids of 1..MaxRows rows of MaxRowLen cells, and the editor's own layout
DocsGrids(d) ==
  \E rows \in SeqsOf(GridRows, 1, MaxRows), tiled \in BOOLEAN :
    d = Map(FourTiles, OneLayer(rows, tiled))

\* layer elements: no data, csv, another encoding, no encoding
LayerChoices ==
  { [name |-> "empty", data |-> None],
    LayerElement("a", Some("csv"), Csv(<<<<Token(0, 1)>>>>, FALSE)),
    LayerElement("b", Some("csv"), Csv(<<<<Token(0, 0), Token(0, 2)>>>>, TRUE)),
    LayerElement("c", Some("base64"), <<"A", "Q", "=", "=">>),
    LayerElement("d", None, Csv(<<<<Token(0, 1)>>>>, FALSE)) }

DocsLayers(d) == \E layers \in SeqsOf(LayerChoices, 0, MaxLayers) : d = Map(FourTiles, layers)

\* the collision objects of a tile, in document order
ObjectPool(k) ==
  IF k % 2 = 1 THEN RectObject(2, 3, 10, 8)
  ELSE PolygonObject(1, 2, <<"0", ",", "0", " ", "8", ",", "0", " ", "8", ",", "6">>)

WithObjects(id, n) == TileElement(id, Some([k \in 1..n |-> ObjectPool(k)]))

\* the <tile> elements of a tileset: none, tile 0 with 0..MaxObjects objects,
\* then also tile 1 with one, tile 1 alone, a tile without objectgroup
TileChoices ==
  { <<>>, <<WithObjects(1, 1)>>, <<TileElement(0, None)>> }
  \cup { <<WithObjects(0, n)>> : n \in 0..MaxObjects }
  \cup { <<WithObjects(0, n), WithObjects(1, 1)>> : n \in 0..MaxObjects }

\* tilesets that differ in tile size, columns, count, image and shapes
ShapedRefs ==
  { TilesetRef(1, TsxDoc(<<16, 16>>, 3, 2, None, ImageA, tiles)) : tiles \in TileChoices }
  \cup
  { TilesetRef(4, TsxDoc(<<8, 4>>, 2, 1, None, ImageB, tiles)) :
      tiles \in {<<>>, <<WithObjects(0, 1)>>, <<WithObjects(1, MaxObjects)>>} }

DocsShapes(d) ==
  \E sets \in SeqsOf(ShapedRefs, 1, MaxSets) :
    d = Map(sets, OneLayer(<<<<Token(0, 1), Token(0, 4)>>>>, FALSE))

\* the <properties> of the .tmx: absent, empty, one of the two missing or
\* empty, both given
PropertyChoices ==
  { None, Some(<<>>),
    Some(<<Property("hva:mode", <<"D", "m">>)>>),
    Some(<<Property("hva:name", <<"M", "a", "p">>)>>),
    Some(<<Property("hva:mode", <<>>), Property("hva:name", <<"M", "a", "p">>)>>),
    Some(<<Property("hva:mode", <<"D", "m">>), Property("hva:name", <<>>)>>),
    Some(<<Property("hva:name", <<"M", "a", "p">>), Property("hva:mode", <<"c", "T", "F">>),
           Property("other", <<"1">>)>>),
    GoodProperties }

DocsProperties(d) ==
  \E exists \in BOOLEAN, path \in {TmxPath, <<"m", ".", "t", "x", "t">>},
     properties \in PropertyChoices :
    d = TmxDoc(exists, path, properties, TwoSets,
               OneLayer(<<<<Token(0, 1), Token(0, 5)>>>>, FALSE))

\* the decimal text of an integer of either sign
Signed(v) == IF v < 0 THEN Neg(-v) ELSE Dec(v)

\* the points attribute of a <polygon>: "x,y x,y ..."
PointsText(points) ==
  JoinWith([i \in 1..Len(points) |-> Signed(points[i][1]) \o <<",">> \o Signed(points[i][2])],
           " ")

\* <object x y/>: no width, no height, no child element
BareObject(x, y) ==
  [x |-> Dec(x), y |-> Dec(y), width |-> None, height |-> None, children |-> <<>>]

\* collision objects of a 16x16 tile: two rectangles inside the tile, a
\* polygon inside it, a polygon with vertices on both sides of it, and an
\* object that is neither
ObjectKinds ==
  { RectObject(2, 3, 10, 8), RectObject(10, 10, 4, 4),
    PolygonObject(1, 2, PointsText(<< <<0, 0>>, <<8, 0>>, <<8, 6>> >>)),
    PolygonObject(12, 2, PointsText(<< <<0, 0>>, <<8, 0>>, <<-14, 6>> >>)),
    BareObject(4, 4) }

\* one tileset of 3 tiles of 16x16: tile 0 with 1..MaxObjects collision
\* objects of every kind, then tile 1 with a rectangle
DocsObjects(d) ==
  \E objects \in SeqsOf(ObjectKinds, 1, MaxObjects) :
    d = Map(<<TilesetRef(1, TsxDoc(<<16, 16>>, 3, 2, None, ImageA,
                                   <<TileElement(0, Some(objects)), WithObjects(1, 1)>>))>>,
            OneLayer(<<<<Token(0, 1)>>>>, FALSE))

\* the <properties> of a tileset that declares 2 tiles: hva:tiles empty, no
\* integer (two ways), an integer with a blank before it, and another
\* property only
OverrideChoices ==
  { Some(<<Property("hva:tiles", <<>>)>>),
    Some(<<Property("hva:tiles", <<"x">>)>>),
    Some(<<Property("hva:tiles", <<"1", ".", "5">>)>>),
    Some(<<Property("hva:tiles", <<" ", "3">>)>>),
    Some(<<Property("other", <<"1">>)>>) }

DocsOverrides(d) ==
  \E sets \in SeqsOf({TilesetRef(1, PlainSet(p)) : p \in OverrideChoices}, 1, MaxSets) :
    d = Map(sets, OneLayer(<<<<Token(0, 1)>>>>, FALSE))

\* tileset paths that exist or not, end with .tsx or not, over a document
\* that loads and one whose hva:tiles is no integer
FileRefs ==
  { TilesetRef(1, [PlainSet(p) EXCEPT !.exists = e, !.source = s]) :
      e \in BOOLEAN,
      s \in {<<"s", ".", "t", "s", "x">>, <<"s", ".", "p", "n", "g">>},
      p \in {None, Some(<<Property("hva:tiles", <<"x">>)>>)} }

DocsFiles(d) ==
  \E sets \in SeqsOf(FileRefs, 1, MaxSets) :
    d = Map(sets, OneLayer(<<<<Token(0, 1)>>>>, FALSE))

\* tileset documents beside the tile-map or in a directory of their own,
\* with an image below, beside or above them
PathRefs ==
  { TilesetRef(1, [TsxDoc(<<16, 16>>, 2, 2, None, image, <<>>) EXCEPT !.source = source]) :
      source \in {<<"s", ".", "t", "s", "x">>, <<"/", "t", "/", "s", ".", "t", "s", "x">>},
      image \in {ImageA, ImageB, <<".", ".", "/", "c", ".", "p", "n", "g">>} }

DocsPaths(d) ==
  \E sets \in SeqsOf(PathRefs, 1, MaxSets) :
    d = Map(sets, OneLayer(<<<<Token(0, 1)>>>>, FALSE))

\* a tileset of -2 tiles before one of 2: the second starts at offset -2
DocsNegative(d) ==
  \E f \in (0..7) \ {1}, low \in {0, 1} :
    d = Map(<< TilesetRef(0, PlainSet(Some(<<Property("hva:tiles", Neg(2))>>))),
               TilesetRef(0, PlainSet(None)) >>,
            OneLayer(<<<<Token(f, low)>>>>, FALSE))

\* the documents Convert is run on
Docs(d) ==
  DocsRanges(d) \/ DocsRows(d) \/ DocsGrids(d) \/ DocsLayers(d) \/ DocsShapes(d)
  \/ DocsProperties(d) \/ DocsObjects(d) \/ DocsOverrides(d) \/ DocsFiles(d)
  \/ DocsPaths(d) \/ DocsNegative(d)

(* ------------------------------- state -------------------------------- *)
VARIABLES
  doc,              \* the .tmx document at filepath, with the documents it names
  pc,               \* where Convert(filepath) stands
  err,              \* the exception that ended it, NoError while none
  tile_size, mode, name, tileset_list, layers,   \* the fields of the Tilemap
  cur,              \* the layer loop: layer, its rows, (row, tok), row_data, layer_data
  cell,             \* the locals of the last decoded cell
  global_tile,      \* the local global_tile: None until first assigned
  ext_resource_id, sub_resource_id, tile_objects, tres, tscn,  \* locals of Convert
  result            \* self.tscn, self.tres, self.images: None until saved

\* app.py, MainWindow: the two list widgets, the loop of convert_maps and
\* what it leaves on disk
VARIABLES
  map_list,         \* the paths of the map list widget, each with the file behind it
  destination_list, \* the folders of the destination list widget
  app_pc,           \* "idle" between handlers, "converting" inside convert_maps
  map_id, destination_id,  \* the loop variables of convert_maps
  raised,           \* the exception that left convert_maps last, NoError while none
  folders,          \* the map folders made below the destinations
  outputs           \* the files written and copied into them

\* tiled2hva.py, main: the run of the command line tool
VARIABLES
  cli_pc,           \* where main stands
  cli_map,          \* the .tmx at args.filepath
  cli_tileset_list, \* Tilemap.tileset_list: (tile_count, firstgid) by tag_index
  cli_global_tile,  \* the value stored for the cell of the layer
  cli_tres,         \* the tile records of Tileset._generate_tres
  folder,           \* the entries of full_folder_path, None while it does not exist
  listed,           \* what is left of listdir(full_folder_path) in the wipe loop
  response,         \* the answer to the wipe prompt, None while not asked
  removed,          \* the entries removed by the wipe loop
  copied_files,     \* the images copied
  written           \* the files written

coreVars ==
  <<doc, pc, err, tile_size, mode, name, tileset_list, layers, cur, cell, global_tile,
    ext_resource_id, sub_resource_id, tile_objects, tres, tscn, result>>

appVars ==
  <<map_list, destination_list, app_pc, map_id, destination_id, raised, folders, outputs>>

cliVars ==
  <<cli_pc, cli_map, cli_tileset_list, cli_global_tile, cli_tres, folder, listed, response,
    removed, copied_files, written>>

vars == <<coreVars, appVars, cliVars>>

tilemapVars == <<tile_size, mode, name, tileset_list, layers>>
loopVars == <<cur, cell, global_tile>>
convertVars == <<ext_resource_id, sub_resource_id, tile_objects, tres, tscn, result>>

NoCell ==
  [token |-> <<>>, tile |-> NotInt, tile_byte |-> <<>>, rotation_value |-> 0, tile_value |-> 0]

NoLoop ==
  [layer |-> 0, rows |-> <<>>, row |-> 0, tok |-> 0, layer_data |-> <<>>, row_data |-> <<>>]

\* Convert before its first step
ConvertInit ==
  /\ pc = "open"
  /\ err = NoError
  /\ tile_size = <<0, 0>>
  /\ mode = <<>>
  /\ name = <<>>
  /\ tileset_list = <<>>
  /\ layers = <<>>
  /\ cur = NoLoop
  /\ cell = NoCell
  /\ global_tile = None
  /\ ext_resource_id = 0
  /\ sub_resource_id = 0
  /\ tile_objects = <<>>
  /\ tres = [load_steps |-> 0, ext_resources |-> <<>>, sub_resources |-> <<>>, tiles |-> <<>>]
  /\ tscn = [tres_path |-> <<>>, root |-> <<>>, nodes |-> <<>>]
  /\ result = None

\* the window with both lists empty and nothing on disk
AppInit ==
  /\ map_list = <<>>
  /\ destination_list = <<>>
  /\ app_pc = "idle"
  /\ map_id = 0
  /\ destination_id = 0
  /\ raised = NoError
  /\ folders = {}
  /\ outputs = {}

\* main before its first step, on the file m with the folder as f
MainInit(m, f) ==
  /\ cli_pc = "tilemap"
  /\ cli_map = m
  /\ cli_tileset_list = <<>>
  /\ cli_global_tile = None
  /\ cli_tres = <<>>
  /\ folder = f
  /\ listed = {}
  /\ response = None
  /\ removed = {}
  /\ copied_files = 0
  /\ written = {}

\* no file given to the command line tool
NoMap == [named |-> FALSE, sets |-> <<>>, token |-> <<>>, images |-> <<>>]

Init ==
  /\ Docs(doc)
  /\ ConvertInit
  /\ AppInit
  /\ MainInit(NoMap, None)

\* the error reported and the conversion carried on with what was loaded
ThrowAndGoOn(e) ==
  /\ pc' = "ext_resources"
  /\ err' = e

\* throw(msg), or an exception of Python's: nothing catches it in Convert
Throw(e) ==
  /\ pc' = "failed"
  /\ err' = e

\* where the constructor goes once layer element i is dealt with
AfterLayers(i) == IF i < Len(doc.layers) THEN "layers" ELSE "ext_resources"

\* where the constructor goes once tileset element i is dealt with
AfterTilesets(i) == IF i < Len(doc.tilesets) THEN "tilesets" ELSE AfterLayers(0)

(* ------------------------------ Tilemap ------------------------------- *)
\* Tilemap.__init__, lines 33-54: the file checks, the parse, the tile size
TilemapOpen ==
  /\ UNCHANGED <<appVars, cliVars>>
  /\ pc = "open"
  /\ IF ~doc.exists
     THEN Throw(ConversionError("Tilemap file cannot be found")) /\ UNCHANGED tile_size
     ELSE IF ~EndsWith(doc.path, <<".", "t", "m", "x">>)
     THEN Throw(ConversionError("Tilemap file must be .tmx format")) /\ UNCHANGED tile_size
     ELSE /\ tile_size' = <<IntOf(PyInt(doc.tilewidth)), IntOf(PyInt(doc.tileheight))>>
          /\ pc' = "properties"
          /\ UNCHANGED err
  /\ UNCHANGED <<doc, mode, name, tileset_list, layers, loopVars, convertVars>>

\* "Grab properties" without the test of hva:name
TilemapPropertiesNoNameTest ==
  /\ UNCHANGED <<appVars, cliVars>>
  /\ pc = "properties"
  /\ IF doc.properties = None
     THEN /\ Throw(ConversionErrorNaming("No properties found in Tilemap", Basename(doc.path)))
          /\ UNCHANGED <<mode, name>>
     ELSE LET properties == doc.properties[1]
              given == DictGet(properties, "hva:name")
          IN  IF ~Truthy(DictGet(properties, "hva:mode"))
              THEN /\ Throw(ConversionErrorNaming("Property hva:mode not provided in Tilemap",
                                              Basename(doc.path)))
                   /\ UNCHANGED <<mode, name>>
              ELSE /\ mode' = DictGet(properties, "hva:mode")[1]
                   /\ name' = IF given = None THEN <<>> ELSE given[1]
                   /\ pc' = AfterTilesets(0)
                   /\ UNCHANGED err
  /\ UNCHANGED <<doc, tile_size, tileset_list, layers, loopVars, convertVars>>

\* Tilemap.__init__, "Grab properties"
TilemapProperties ==
  /\ UNCHANGED <<appVars, cliVars>>
  /\ pc = "properties"
  /\ IF doc.properties = None
     THEN /\ Throw(ConversionErrorNaming("No properties found in Tilemap", Basename(doc.path)))
          /\ UNCHANGED <<mode, name>>
     ELSE LET properties == doc.properties[1]
          IN  IF ~Truthy(DictGet(properties, "hva:mode"))
              THEN /\ Throw(ConversionErrorNaming("Property hva:mode not provided in Tilemap",
                                              Basename(doc.path)))
                   /\ UNCHANGED <<mode, name>>
              ELSE IF ~Truthy(DictGet(properties, "hva:name"))
              THEN /\ Throw(ConversionErrorNaming("Property hva:name not provided in Tilemap",
                                              Basename(doc.path)))
                   /\ mode' = DictGet(properties, "hva:mode")[1]
                   /\ UNCHANGED name
              ELSE /\ mode' = DictGet(properties, "hva:mode")[1]
                   /\ name' = DictGet(properties, "hva:name")[1]
                   /\ pc' = AfterTilesets(0)
                   /\ UNCHANGED err
  /\ UNCHANGED <<doc, tile_size, tileset_list, layers, loopVars, convertVars>>

\* Tilemap.__init__, "Grab tilesets": one turn of the loop
GrabTileset ==
  /\ UNCHANGED <<appVars, cliVars>>
  /\ pc = "tilesets"
  /\ LET i == Len(tileset_list) + 1
         tilemap_set == doc.tilesets[i]
         made == Tileset(tilemap_set.tsx)
     IN  IF made.err # NoError
         THEN Throw(made.err) /\ UNCHANGED tileset_list
         ELSE /\ tileset_list' =
                   Append(tileset_list,
                          <<made.tileset, IntOf(PyInt(tilemap_set.firstgid)),
                            SumTileCount(tileset_list)>>)
              /\ pc' = AfterTilesets(i)
              /\ UNCHANGED err
  /\ UNCHANGED <<doc, tile_size, mode, name, layers, loopVars, convertVars>>

\* "Grab layers" with a missing encoding attribute taken for csv
GrabLayerDefaultCsv ==
  /\ UNCHANGED <<appVars, cliVars>>
  /\ pc = "layers"
  /\ LET i == cur.layer + 1
         layer == doc.layers[i]
     IN  IF layer.data = None
         THEN /\ cur' = [NoLoop EXCEPT !.layer = i]
              /\ pc' = AfterLayers(i)
              /\ UNCHANGED err
         ELSE IF layer.data[1].encoding \notin {None, Some("csv")}
         THEN /\ Throw(ConversionError("Tilemaps must be encoded in csv format!"))
              /\ UNCHANGED cur
         ELSE LET lines == Split(Strip(layer.data[1].text), "\n")
              IN  /\ cur' = [layer |-> i,
                             rows |-> [r \in 1..Len(lines) |-> Split(lines[r], ",")],
                             row |-> 1, tok |-> 1, layer_data |-> <<>>, row_data |-> <<>>]
                  /\ pc' = "cells"
                  /\ UNCHANGED err
  /\ UNCHANGED <<doc, tilemapVars, cell, global_tile, convertVars>>

\* Tilemap.__init__, "Grab layers": a turn of the loop up to the first row
GrabLayer ==
  /\ UNCHANGED <<appVars, cliVars>>
  /\ pc = "layers"
  /\ LET i == cur.layer + 1
         layer == doc.layers[i]
     IN  IF layer.data = None
         THEN /\ cur' = [NoLoop EXCEPT !.layer = i]
              /\ pc' = AfterLayers(i)
              /\ UNCHANGED err
         ELSE IF layer.data[1].encoding # Some("csv")
         THEN /\ Throw(ConversionError("Tilemaps must be encoded in csv format!"))
              /\ UNCHANGED cur
         ELSE LET lines == Split(Strip(layer.data[1].text), "\n")
              IN  /\ cur' = [layer |-> i,
                             rows |-> [r \in 1..Len(lines) |-> Split(lines[r], ",")],
                             row |-> 1, tok |-> 1, layer_data |-> <<>>, row_data |-> <<>>]
                  /\ pc' = "cells"
                  /\ UNCHANGED err
  /\ UNCHANGED <<doc, tilemapVars, cell, global_tile, convertVars>>
\* the loop position after the token at (cur.row, cur.tok), row_data being
\* the row so far: the row and the layer are appended as they end, and the
\* locals of a finished layer are read no more
Advance(row_data) ==
  IF cur.tok < Len(cur.rows[cur.row])
  THEN /\ cur' = [cur EXCEPT !.tok = cur.tok + 1, !.row_data = row_data]
       /\ pc' = "cells"
       /\ UNCHANGED layers
  ELSE IF cur.row < Len(cur.rows)
  THEN /\ cur' = [cur EXCEPT !.row = cur.row + 1, !.tok = 1, !.row_data = <<>>,
                             !.layer_data = Append(cur.layer_data, row_data)]
       /\ pc' = "cells"
       /\ UNCHANGED layers
  ELSE /\ cur' = [NoLoop EXCEPT !.layer = cur.layer]
       /\ layers' = Append(layers, <<doc.layers[cur.layer].name,
                                     Append(cur.layer_data, row_data)>>)
       /\ pc' = AfterLayers(cur.layer)

\* the cell loop with an empty cell stored for a token that is no integer
DecodeCellKeepsPlace ==
  /\ UNCHANGED <<appVars, cliVars>>
  /\ pc = "cells"
  /\ LET token == cur.rows[cur.row][cur.tok]
         tile == PyInt(token)
         tile_byte == TileByte(tile)
         key == SubSeq(tile_byte, 1, 3)
         rotation_value == RotationValue(tile_byte)
         tile_value == TileValue(tile_byte)
         found == FindGlobalTile(tileset_list, 1, tile_value, rotation_value, global_tile)
         stop(e) == Throw(e) /\ UNCHANGED <<cur, cell, global_tile, layers>>
     IN  IF ~tile.ok
         THEN /\ Advance(Append(cur.row_data, 0))
              /\ UNCHANGED <<err, cell, global_tile>>
         ELSE IF \E i \in 1..3 : key[i] \notin {"0", "1"} THEN stop(Raised("KeyError"))
         ELSE IF ~IsBase2(SubSeq(tile_byte, 4, Len(tile_byte))) THEN stop(Raised("ValueError"))
         ELSE IF found = None THEN stop(Raised("UnboundLocalError"))
         ELSE /\ cell' = [token |-> token, tile |-> tile, tile_byte |-> tile_byte,
                          rotation_value |-> rotation_value, tile_value |-> tile_value]
              /\ global_tile' = found
              /\ Advance(Append(cur.row_data, found[1]))
              /\ UNCHANGED err
  /\ UNCHANGED <<doc, tile_size, mode, name, tileset_list, convertVars>>

\* Tilemap.__init__, "For each tile in the layer": one token of the row
DecodeCell ==
  /\ UNCHANGED <<appVars, cliVars>>
  /\ pc = "cells"
  /\ LET token == cur.rows[cur.row][cur.tok]
         tile == PyInt(token)
         tile_byte == TileByte(tile)
         key == SubSeq(tile_byte, 1, 3)
         rotation_value == RotationValue(tile_byte)
         tile_value == TileValue(tile_byte)
         found == FindGlobalTile(tileset_list, 1, tile_value, rotation_value, global_tile)
         stop(e) == Throw(e) /\ UNCHANGED <<cur, cell, global_tile, layers>>
     IN  IF ~tile.ok
         THEN /\ Advance(cur.row_data)
              /\ UNCHANGED <<err, cell, global_tile>>
         ELSE IF \E i \in 1..3 : key[i] \notin {"0", "1"} THEN stop(Raised("KeyError"))
         ELSE IF ~IsBase2(SubSeq(tile_byte, 4, Len(tile_byte))) THEN stop(Raised("ValueError"))
         ELSE IF found = None THEN stop(Raised("UnboundLocalError"))
         ELSE /\ cell' = [token |-> token, tile |-> tile, tile_byte |-> tile_byte,
                          rotation_value |-> rotation_value, tile_value |-> tile_value]
              /\ global_tile' = found
              /\ Advance(Append(cur.row_data, found[1]))
              /\ UNCHANGED err
  /\ UNCHANGED <<doc, tile_size, mode, name, tileset_list, convertVars>>

(* --------------------------- Convert steps ---------------------------- *)
\* sets = [tileset[0] for tileset in tilemap.tileset_list]
Sets == [i \in 1..Len(tileset_list) |-> tileset_list[i][1]]

\* Convert.__init__, "Add set image to tres"
ConvertExtResources ==
  /\ UNCHANGED <<appVars, cliVars>>
  /\ pc = "ext_resources"
  /\ ext_resource_id' = Len(Sets)
  /\ tres' = [tres EXCEPT !.ext_resources = ExtResources(Sets)]
  /\ pc' = "sub_resources"
  /\ UNCHANGED <<doc, err, tilemapVars, loopVars, sub_resource_id, tile_objects, tscn, result>>

\* Convert.__init__, "Object collision step"
ConvertSubResources ==
  /\ UNCHANGED <<appVars, cliVars>>
  /\ pc = "sub_resources"
  /\ LET done == CollisionStep(ShapePairs(Sets, 0), sub_resource_id, <<>>, tile_objects)
     IN  /\ sub_resource_id' = done.sub_resource_id
         /\ tile_objects' = done.tile_objects
         /\ tres' = [tres EXCEPT !.sub_resources = done.sub_resources]
  /\ pc' = "tiles"
  /\ UNCHANGED <<doc, err, tilemapVars, loopVars, ext_resource_id, tscn, result>>

\* the tile step with a header that counts the resources only
ConvertTilesHeaderWithoutOne ==
  /\ UNCHANGED <<appVars, cliVars>>
  /\ pc = "tiles"
  /\ tres' = [tres EXCEPT !.tiles = TileStep(Sets, 0, 0, tile_objects),
                          !.load_steps = ext_resource_id + sub_resource_id]
  /\ pc' = "scene"
  /\ UNCHANGED <<doc, err, tilemapVars, loopVars, ext_resource_id, sub_resource_id,
                 tile_objects, tscn, result>>

\* Convert.__init__, "Tile step" and the gd_resource header
ConvertTiles ==
  /\ UNCHANGED <<appVars, cliVars>>
  /\ pc = "tiles"
  /\ tres' = [tres EXCEPT !.tiles = TileStep(Sets, 0, 0, tile_objects),
                          !.load_steps = ext_resource_id + sub_resource_id + 1]
  /\ pc' = "scene"
  /\ UNCHANGED <<doc, err, tilemapVars, loopVars, ext_resource_id, sub_resource_id,
                 tile_objects, tscn, result>>

\* the TileMap node of one layer
LayerNode(layer) ==
  [name |-> layer[1], cell_size |-> tile_size, tile_data |-> FlattenLayer(layer[2], 0)]

\* "Generate tscn" with the mode lower-cased in the node name as well
ConvertSceneLowerRoot ==
  /\ UNCHANGED <<appVars, cliVars>>
  /\ pc = "scene"
  /\ LET made == [tres_path |-> Lower(mode) \o <<"_">> \o Lower(name)
                                \o <<".", "t", "r", "e", "s">>,
                  root |-> Lower(mode) \o <<"_">> \o Lower(name),
                  nodes |-> [i \in 1..Len(layers) |-> LayerNode(layers[i])]]
     IN  /\ tscn' = made
         /\ result' = Some([tscn |-> made, tres |-> tres,
                            images |-> [i \in 1..Len(tileset_list) |->
                                          tileset_list[i][1].full_image_path]])
  /\ pc' = "done"
  /\ UNCHANGED <<doc, err, tilemapVars, loopVars, ext_resource_id, sub_resource_id,
                 tile_objects, tres>>

\* Convert.__init__, "Generate tscn" and "Save data"
ConvertScene ==
  /\ UNCHANGED <<appVars, cliVars>>
  /\ pc = "scene"
  /\ LET made == [tres_path |-> Lower(mode) \o <<"_">> \o Lower(name)
                                \o <<".", "t", "r", "e", "s">>,
                  root |-> mode \o <<"_">> \o Lower(name),
                  nodes |-> [i \in 1..Len(layers) |-> LayerNode(layers[i])]]
     IN  /\ tscn' = made
         /\ result' = Some([tscn |-> made, tres |-> tres,
                            images |-> [i \in 1..Len(tileset_list) |->
                                          tileset_list[i][1].full_image_path]])
  /\ pc' = "done"
  /\ UNCHANGED <<doc, err, tilemapVars, loopVars, ext_resource_id, sub_resource_id,
                 tile_objects, tres>>

Next ==
  \/ TilemapOpen
  \/ TilemapProperties
  \/ GrabTileset
  \/ GrabLayer
  \/ DecodeCell
  \/ ConvertExtResources
  \/ ConvertSubResources
  \/ ConvertTiles
  \/ ConvertScene

Spec == Init /\ [][Next]_vars

(* ====================================================================== *)
(*                    app.py: MainWindow.convert_maps                     *)
(* ====================================================================== *)
\* an item of the map list: a path, with what Tilemap finds behind it
MapFile(path, exists, named, hva_name, images) ==
  [kind |-> "str", path |-> path, exists |-> exists, named |-> named,
   mode |-> "Dm", name |-> hva_name, images |-> images]

\* a map with one image, one with two, a path with no file behind it, and a
\* map without hva:name
MapFiles ==
  { MapFile("a.tmx", TRUE, TRUE, "A", <<"a.png">>),
    MapFile("b.tmx", TRUE, TRUE, "B", <<"a.png", "b.png">>),
    MapFile("gone.tmx", FALSE, TRUE, "G", <<>>),
    MapFile("n.tmx", TRUE, FALSE, "", <<>>) }

Destinations == {"out", "alt"}

\* Tilemap(filepath) of converter/core.py as convert_maps sees it: the
\* object, or the exception of the constructor. split() of line 34 takes a
\* path only.
TilemapCall(filepath) ==
  LET failed(e) == [kind |-> "Tilemap", err |-> e, mode |-> "", name |-> "", images |-> <<>>]
  IN  IF filepath.kind # "str" THEN failed(Raised("TypeError"))
      ELSE IF ~filepath.exists THEN failed(ConversionError("Tilemap file cannot be found"))
      ELSE IF ~filepath.named
      THEN failed(ConversionErrorNaming("Property hva:name not provided in Tilemap",
                                        filepath.path))
      ELSE [kind |-> "Tilemap", err |-> NoError, mode |-> filepath.mode,
            name |-> filepath.name, images |-> filepath.images]

\* Convert(filepath) of converter/core.py: it makes its own Tilemap(filepath)
ConvertCall(filepath) ==
  LET tilemap == TilemapCall(filepath)
  IN  [err |-> tilemap.err, tres |-> tilemap.name, tscn |-> tilemap.name,
       images |-> tilemap.images]

\* f"{tilemap.mode}_{tilemap.name}"
MapName(tilemap) == <<tilemap.mode, tilemap.name>>

\* select_map_item: the path chosen in the file dialog is added
SelectMapItem ==
  /\ app_pc = "idle"
  /\ Len(map_list) < MaxMaps
  /\ \E selected_file_path \in MapFiles : map_list' = Append(map_list, selected_file_path)
  /\ UNCHANGED <<destination_list, app_pc, map_id, destination_id, raised, folders, outputs>>
  /\ UNCHANGED <<coreVars, cliVars>>

\* remove_map_item: takeItem(currentRow())
RemoveMapItem ==
  /\ app_pc = "idle"
  /\ \E row \in 1..Len(map_list) :
       map_list' = SubSeq(map_list, 1, row - 1) \o SubSeq(map_list, row + 1, Len(map_list))
  /\ UNCHANGED <<destination_list, app_pc, map_id, destination_id, raised, folders, outputs>>
  /\ UNCHANGED <<coreVars, cliVars>>

\* select_destination_item
SelectDestinationItem ==
  /\ app_pc = "idle"
  /\ Len(destination_list) < MaxDestinations
  /\ \E selected_folder_path \in Destinations :
       destination_list' = Append(destination_list, selected_folder_path)
  /\ UNCHANGED <<map_list, app_pc, map_id, destination_id, raised, folders, outputs>>
  /\ UNCHANGED <<coreVars, cliVars>>

\* remove_destination_item
RemoveDestinationItem ==
  /\ app_pc = "idle"
  /\ \E row \in 1..Len(destination_list) :
       destination_list' = SubSeq(destination_list, 1, row - 1)
                           \o SubSeq(destination_list, row + 1, Len(destination_list))
  /\ UNCHANGED <<map_list, app_pc, map_id, destination_id, raised, folders, outputs>>
  /\ UNCHANGED <<coreVars, cliVars>>

\* convert_maps, lines 165-183: the two warnings, or into the loops
ConvertMaps ==
  /\ app_pc = "idle"
  /\ IF Len(map_list) < 1 \/ Len(destination_list) < 1
     THEN UNCHANGED <<app_pc, map_id, destination_id, raised>>
     ELSE /\ app_pc' = "converting"
          /\ map_id' = 0
          /\ destination_id' = 0
          /\ raised' = NoError
  /\ UNCHANGED <<map_list, destination_list, folders, outputs>>
  /\ UNCHANGED <<coreVars, cliVars>>

\* the loop variables after the pair (map_id, destination_id), and "idle"
\* after the last pair
NextPair ==
  IF destination_id + 1 < Len(destination_list)
  THEN /\ destination_id' = destination_id + 1
       /\ UNCHANGED <<map_id, app_pc>>
  ELSE IF map_id + 1 < Len(map_list)
  THEN /\ map_id' = map_id + 1
       /\ destination_id' = 0
       /\ UNCHANGED app_pc
  ELSE /\ app_pc' = "idle"
       /\ UNCHANGED <<map_id, destination_id>>

\* an exception no handler of convert_maps catches: the slot is left
Propagate(e) ==
  /\ raised' = e
  /\ app_pc' = "idle"
  /\ UNCHANGED <<map_id, destination_id>>

\* convert_maps, lines 185-211: the body of the two loops for one pair
ConvertMapsPair ==
  /\ app_pc = "converting"
  /\ LET map == map_list[map_id + 1]
         destination == destination_list[destination_id + 1]
         tilemap == TilemapCall(map)
         convert == ConvertCall(tilemap)
         full_destination == <<destination, MapName(tilemap)>>
         \* mkdir, and the files of the folder removed when it is there
         kept == {f \in outputs : f[1] # full_destination}
         saved == kept \cup {<<full_destination, "tres">>, <<full_destination, "tscn">>}
         \* the first copy lands in the folder; destination is then the path
         \* of the copied file, and the second copy is aimed below it
         copies == IF convert.images = <<>> THEN {}
                   ELSE {<<full_destination, convert.images[1]>>}
     IN  IF tilemap.err # NoError
         THEN Propagate(tilemap.err) /\ UNCHANGED <<folders, outputs>>
         ELSE IF convert.err # NoError
         THEN Propagate(convert.err) /\ UNCHANGED <<folders, outputs>>
         ELSE /\ folders' = folders \cup {full_destination}
              /\ outputs' = saved \cup copies
              /\ IF Len(convert.images) >= 2
                 THEN Propagate(Raised("OSError"))
                 ELSE NextPair /\ UNCHANGED raised
  /\ UNCHANGED <<map_list, destination_list>>
  /\ UNCHANGED <<coreVars, cliVars>>

\* a document for the front ends that run no Convert of this module's
NoDoc == TmxDoc(FALSE, <<>>, None, <<>>, <<>>)

InitApp ==
  /\ doc = NoDoc
  /\ ConvertInit
  /\ AppInit
  /\ MainInit(NoMap, None)

NextApp ==
  \/ SelectMapItem
  \/ RemoveMapItem
  \/ SelectDestinationItem
  \/ RemoveDestinationItem
  \/ ConvertMaps
  \/ ConvertMapsPair

SpecApp == InitApp /\ [][NextApp]_vars

(* ====================================================================== *)
(*                          tiled2hva.py: main                            *)
(* ====================================================================== *)
\* a Tileset of tiled2hva.py as its constructor leaves it: 16x16 tiles in 2
\* columns, tile_count tiles, no collision shape or a triangle on tile 0
CliTileset(tile_count, shaped) ==
  [tile_count |-> tile_count, columns |-> 2, tile_size |-> <<16, 16>>,
   image_path |-> "a.png", full_image_path |-> "img/a.png",
   shapes |-> IF shaped THEN << <<0, 1, << <<0, 0>>, <<8, 0>>, <<8, 6>> >> >> >> ELSE <<>>]

CliTilesets == {CliTileset(n, shaped) : n \in {1, 2}, shaped \in BOOLEAN}

RECURSIVE EditorGid(_, _)
\* the firstgid the editor gives the k-th tileset of a map: 1, and then the
\* firstgid of the one before plus its tiles
EditorGid(sets, k) == IF k = 1 THEN 1 ELSE EditorGid(sets, k - 1) + sets[k - 1].tile_count

\* the .tmx given to main: its two properties there or hva:name missing, its
\* tilesets, the one cell of its layer
CliMap(named, sets, token) ==
  [named |-> named, sets |-> sets, token |-> token,
   images |-> [k \in 1..Len(sets) |-> sets[k].full_image_path]]

\* what full_folder_path may hold before the run: two files and a folder
Entries == {"old.tscn", "old.png", "sub"}
IsDirectory(entry) == entry = "sub"

\* the answers typed at the wipe prompt
Responses == {"y", "n", "", "Y", "yes"}

\* sum([... tile_count for set_id in self.tileset_list if set_id < tileset_id])
CliFirstGid(list, tileset_id) ==
  LET RECURSIVE Sum(_)
      Sum(k) == IF k = 0 THEN 0 ELSE Sum(k - 1) + list[k][1].tile_count
  IN  Sum(tileset_id - 1)

RECURSIVE CliFindGlobalTile(_, _, _, _, _)
\* "For each tileset in the layer", from tileset_id on: global_tile after
\* the loop, before being what it was when the loop has no turn
CliFindGlobalTile(list, tileset_id, tile_value, rotation_value, before) ==
  IF tileset_id > Len(list) THEN before
  ELSE LET tileset == list[tileset_id]
           first_gid == CliFirstGid(list, tileset_id)
       IN  IF tileset[2] <= tile_value /\ tile_value < tileset[2] + tileset[1].tile_count
           THEN Some(rotation_value + 1 + tile_value + first_gid - tileset[2])
           ELSE CliFindGlobalTile(list, tileset_id + 1, tile_value, rotation_value, Some(0))

\* "Add set image to tres": one ext_resource per set, with set.image_path
CliExtResources(sets) == [i \in 1..Len(sets) |-> [id |-> i, path |-> sets[i].image_path]]

RECURSIVE CliTileStep(_, _, _, _)
\* "Tile step" of Tileset._generate_tres: range(0, set.tile_count+1)
CliTileStep(sets, set_id, total_tiles, objects) ==
  IF set_id >= Len(sets) THEN <<>>
  ELSE LET set == sets[set_id + 1]
           n == IF set.tile_count + 1 > 0 THEN set.tile_count + 1 ELSE 0
       IN  [k \in 1..n |-> TileRecord(set, set_id, k - 1, total_tiles + k, objects)]
           \o CliTileStep(sets, set_id + 1, total_tiles + n, objects)

\* Tileset._generate_tres(sets)
GenerateTres(sets) ==
  LET done == CollisionStep(ShapePairs(sets, 0), 0, <<>>, <<>>)
  IN  [load_steps |-> Len(sets) + done.sub_resource_id + 1,
       ext_resources |-> CliExtResources(sets),
       sub_resources |-> done.sub_resources,
       tiles |-> CliTileStep(sets, 0, 0, done.tile_objects)]

\* exit(1) of throw, or a traceback: nothing runs after either
Killed == cli_pc' = "killed"
Crashed == cli_pc' = "crashed"

\* main, "Create Tilemap": Tilemap(tscn_filepath), the layer's cell decoded
MainTilemap ==
  /\ cli_pc = "tilemap"
  /\ IF ~cli_map.named
     THEN Killed /\ UNCHANGED <<cli_tileset_list, cli_global_tile>>
     ELSE LET list == [k \in 1..Len(cli_map.sets) |->
                         <<cli_map.sets[k], EditorGid(cli_map.sets, k)>>]
              tile_byte == TileByte(PyInt(cli_map.token))
          IN  /\ cli_tileset_list' = list
              /\ cli_global_tile' =
                   CliFindGlobalTile(list, 1, TileValue(tile_byte), RotationValue(tile_byte),
                                     None)
              /\ cli_pc' = "generate"
  /\ UNCHANGED <<cli_map, cli_tres, folder, listed, response, removed, copied_files, written>>
  /\ UNCHANGED <<coreVars, appVars>>

\* main, map = tilemap._generate()
MainGenerate ==
  /\ cli_pc = "generate"
  /\ cli_tres' = GenerateTres([k \in 1..Len(cli_tileset_list) |-> cli_tileset_list[k][1]])
  /\ cli_pc' = "folder"
  /\ UNCHANGED <<cli_map, cli_tileset_list, cli_global_tile, folder, listed, response, removed,
                 copied_files, written>>
  /\ UNCHANGED <<coreVars, appVars>>

\* main, "Try to make folder at location": makedirs, or the prompt printed
MainFolder ==
  /\ cli_pc = "folder"
  /\ IF folder = None
     THEN folder' = Some({}) /\ cli_pc' = "images"
     ELSE cli_pc' = "prompt" /\ UNCHANGED folder
  /\ UNCHANGED <<cli_map, cli_tileset_list, cli_global_tile, cli_tres, listed, response,
                 removed, copied_files, written>>
  /\ UNCHANGED <<coreVars, appVars>>

\* the prompt with every answer but "n" taken for a yes
MainResponseUnlessNo ==
  /\ cli_pc = "prompt"
  /\ \/ \E typed \in Responses :
          /\ response' = Some(typed)
          /\ IF typed = "n"
             THEN Killed /\ UNCHANGED listed
             ELSE listed' = folder[1] /\ cli_pc' = "wipe"
     \/ Crashed /\ UNCHANGED <<response, listed>>
  /\ UNCHANGED <<cli_map, cli_tileset_list, cli_global_tile, cli_tres, folder, removed,
                 copied_files, written>>
  /\ UNCHANGED <<coreVars, appVars>>

\* main, response = input(" "): throw() unless it is "y", then listdir; the
\* input at its end raises EOFError
MainResponse ==
  /\ cli_pc = "prompt"
  /\ \/ \E typed \in Responses :
          /\ response' = Some(typed)
          /\ IF typed # "y"
             THEN Killed /\ UNCHANGED listed
             ELSE listed' = folder[1] /\ cli_pc' = "wipe"
     \/ Crashed /\ UNCHANGED <<response, listed>>
  /\ UNCHANGED <<cli_map, cli_tileset_list, cli_global_tile, cli_tres, folder, removed,
                 copied_files, written>>
  /\ UNCHANGED <<coreVars, appVars>>

\* main, "Gut folder": one turn of the loop over listdir, in the order the
\* system lists the entries; remove() raises on a folder
MainRemove ==
  /\ cli_pc = "wipe"
  /\ IF listed = {}
     THEN cli_pc' = "images" /\ UNCHANGED <<folder, listed, removed>>
     ELSE \E file \in listed :
            IF IsDirectory(file)
            THEN Crashed /\ UNCHANGED <<folder, listed, removed>>
            ELSE /\ folder' = Some(folder[1] \ {file})
                 /\ listed' = listed \ {file}
                 /\ removed' = removed \cup {file}
                 /\ UNCHANGED cli_pc
  /\ UNCHANGED <<cli_map, cli_tileset_list, cli_global_tile, cli_tres, response,
                 copied_files, written>>
  /\ UNCHANGED <<coreVars, appVars>>

\* main, "Move images": one turn of the loop over map[2]; the copy is named
\* as the image is, which is the image_path of its tileset
MainCopy ==
  /\ cli_pc = "images"
  /\ IF copied_files < Len(cli_map.images)
     THEN /\ folder' = Some(folder[1] \cup {cli_map.sets[copied_files + 1].image_path})
          /\ copied_files' = copied_files + 1
          /\ UNCHANGED cli_pc
     ELSE cli_pc' = "tres" /\ UNCHANGED <<folder, copied_files>>
  /\ UNCHANGED <<cli_map, cli_tileset_list, cli_global_tile, cli_tres, listed, response,
                 removed, written>>
  /\ UNCHANGED <<coreVars, appVars>>

\* main, "Write .tres"
MainWriteTres ==
  /\ cli_pc = "tres"
  /\ folder' = Some(folder[1] \cup {"map.tres"})
  /\ written' = written \cup {"tres"}
  /\ cli_pc' = "tscn"
  /\ UNCHANGED <<cli_map, cli_tileset_list, cli_global_tile, cli_tres, listed, response,
                 removed, copied_files>>
  /\ UNCHANGED <<coreVars, appVars>>

\* main, the .tscn written
MainWriteTscn ==
  /\ cli_pc = "tscn"
  /\ folder' = Some(folder[1] \cup {"map.tscn"})
  /\ written' = written \cup {"tscn"}
  /\ cli_pc' = "done"
  /\ UNCHANGED <<cli_map, cli_tileset_list, cli_global_tile, cli_tres, listed, response,
                 removed, copied_files>>
  /\ UNCHANGED <<coreVars, appVars>>

\* the cells of the maps given to main: plain and flipped, raw values 0..5
CliTokens == {Token(f, low) : f \in {0, 6}, low \in 0..5}

\* the runs of main: every list of tilesets with every cell where there is
\* no folder yet, and one map, named or not, with every folder
CliRuns(m, f) ==
  \/ /\ f = None
     /\ \E sets \in SeqsOf(CliTilesets, 1, MaxSets), token \in CliTokens :
          m = CliMap(TRUE, sets, token)
  \/ /\ \E entries \in SUBSET Entries : f = Some(entries)
     /\ \E named \in BOOLEAN :
          m = CliMap(named, <<CliTileset(2, FALSE), CliTileset(1, TRUE)>>, Token(0, 3))

InitCli ==
  /\ doc = NoDoc
  /\ ConvertInit
  /\ AppInit
  /\ \E m \in {CliMap(named, sets, token) :
                named \in BOOLEAN, sets \in SeqsOf(CliTilesets, 1, MaxSets),
                token \in CliTokens},
        f \in {None} \cup {Some(entries) : entries \in SUBSET Entries} :
       CliRuns(m, f) /\ MainInit(m, f)

NextCli ==
  \/ MainTilemap
  \/ MainGenerate
  \/ MainFolder
  \/ MainResponse
  \/ MainRemove
  \/ MainCopy
  \/ MainWriteTres
  \/ MainWriteTscn

SpecCli == InitCli /\ [][NextCli]_vars

(* ====================================================================== *)
(*                               Properties                               *)
(* ====================================================================== *)

(* ---------------------- what the claims refer to ---------------------- *)
\* the flip triple (0..7) and the raw tile value of a generated token, read
\* off the way the token was written: <<f, low>>, or <<>> for no integer
TokenTable == {<<Token(p[1], p[2]), p>> : p \in (0..7) \X (0..5)}

TokenParts(token) ==
  LET hits == {e \in TokenTable : e[1] = token}
  IN  IF hits = {} THEN <<>> ELSE (CHOOSE e \in hits : TRUE)[2]

\* the signed 3-bit replacement code of a flip triple
ReplacementCode(f) ==
  CASE f = 0 -> 0 [] f = 1 -> -4 [] f = 2 -> 2 [] f = 3 -> -2
    [] f = 4 -> 1 [] f = 5 -> -3 [] f = 6 -> 3 [] f = 7 -> -1

TwoTo29 == 2 ^ 29

RECURSIVE Flat(_)
Flat(rows) == IF rows = <<>> THEN <<>> ELSE Head(rows) \o Flat(Tail(rows))

\* the cells stored so far for the layer being read or, between layers, of
\* the layer stored last
StoredCells ==
  IF cur.rows # <<>> THEN Flat(Append(cur.layer_data, cur.row_data))
  ELSE IF layers # <<>> THEN Flat(layers[Len(layers)][2])
  ELSE <<>>

\* a cell has been decoded and stored, and cell holds its locals
CellStored == cell.tile.ok /\ StoredCells # <<>>

LastStored == StoredCells[Len(StoredCells)]

\* the declared tilesets whose source range holds raw tile value v
Holding(v) ==
  {k \in 1..Len(tileset_list) :
     /\ tileset_list[k][2] <= v
     /\ v < tileset_list[k][2] + tileset_list[k][1].tile_count}

RECURSIVE CountSum(_)
\* the sum of the effective tile_count of the first n declared tilesets
CountSum(n) == IF n = 0 THEN 0 ELSE CountSum(n - 1) + tileset_list[n][1].tile_count

\* the token the decoding loop stands at (the one that raised, after a failure)
AtToken == cur.rows[cur.row][cur.tok]

CrashedAtToken == pc = "failed" /\ cur.rows # <<>> /\ err = Raised("UnboundLocalError")

(* ------------------------------- C1 ----------------------------------- *)
\* C1: a cell whose raw tile value lies in the source range of at least one
\* declared tileset is resolved against the first such tileset in declaration
\* order, and the stored cell is raw - first_gid + 1 + merged offset +
\* rotation contribution, the merged offset being the sum of the effective
\* tile_count of the tilesets declared before it.
C1_FirstMatchRemap ==
  CellStored =>
    LET parts == TokenParts(cell.token)
        holding == Holding(parts[2])
    IN  holding # {} =>
          LET k == CHOOSE i \in holding : \A j \in holding : i <= j
          IN  LastStored = parts[2] - tileset_list[k][2] + 1 + CountSum(k - 1)
                           + ReplacementCode(parts[1]) * TwoTo29

\* C1 witness: a flipped cell held by two overlapping ranges, resolved
\* against the first, which is not where the second would put it
C1_Witness ==
  /\ CellStored
  /\ TokenParts(cell.token)[1] # 0
  /\ Holding(TokenParts(cell.token)[2]) = {1, 2}
  /\ tileset_list[1][2] # tileset_list[2][2] + tileset_list[1][1].tile_count

(* ------------------------------- C2 ----------------------------------- *)
\* C2: the rotation contribution of a cell depends only on the top 3 bits of
\* the raw value and is the replacement code of the table times 2^29; the raw
\* tile value is the low 29 bits.
C2_RotationFromTopBits ==
  cell.tile.ok =>
    LET parts == TokenParts(cell.token)
    IN  /\ cell.rotation_value = ReplacementCode(parts[1]) * TwoTo29
        /\ cell.tile_value = parts[2]
        /\ Len(cell.tile_byte) = 32

\* C2 witness: flip triple 101 over raw tile value 2 gives -3 * 2^29 and 2
C2_Witness ==
  /\ cell.token = Token(5, 2)
  /\ cell.rotation_value = -1610612736
  /\ cell.tile_value = 2

(* ------------------------------- C3 ----------------------------------- *)
\* C3: a cell whose raw tile value is 0 resolves to 0 whatever its flip bits,
\* the declared tilesets and their first gids are: it is stored as 0, and
\* reading it does not end the load.
C3_EmptyCellStaysEmpty ==
  /\ CellStored => (TokenParts(cell.token)[2] = 0 => LastStored = 0)
  /\ CrashedAtToken => (TokenParts(AtToken) # <<>> => TokenParts(AtToken)[2] # 0)

(* ------------------------------- C4 ----------------------------------- *)
\* C4: for any list of declared tilesets, the empty list included, a cell
\* whose non-zero raw tile value lies in no source range resolves to 0
\* whatever its flip bits, the load does not fail on it, and the scene lists
\* no cell for it.
C4_UnresolvedDropped ==
  /\ CellStored =>
       LET parts == TokenParts(cell.token)
       IN  (parts[2] # 0 /\ Holding(parts[2]) = {}) => LastStored = 0
  /\ CrashedAtToken =>
       LET parts == TokenParts(AtToken)
       IN  parts # <<>> => ~(parts[2] # 0 /\ Holding(parts[2]) = {})
(* ------------------------------- C5 ----------------------------------- *)
\* the stored merged offset and the effective tile count of declared tileset k
Offset(k) == tileset_list[k][3]
Count(k) == tileset_list[k][1].tile_count

\* the merged ranges [Offset(k), Offset(k) + Count(k)) lie in [0, total) and
\* every id of [0, total) is in exactly one of them
RangesPartition ==
  LET n == Len(tileset_list)
      total == CountSum(n)
  IN  /\ \A k \in 1..n : 0 <= Offset(k) /\ Offset(k) + Count(k) <= total
      /\ \A v \in 0..(total - 1) :
           Cardinality({k \in 1..n : Offset(k) <= v /\ v < Offset(k) + Count(k)}) = 1

\* C5 as stated: for every effective tile_count a tileset load can produce,
\* the merged offsets never decrease in declaration order and the merged
\* ranges exactly partition [0, sum of all tile_count).
C5_OffsetsPartition ==
  /\ \A k \in 1..(Len(tileset_list) - 1) : Offset(k) <= Offset(k + 1)
  /\ RangesPartition

\* C5 amended: when no declared tileset has a negative effective tile_count,
\* the merged offsets never decrease in declaration order (and grow exactly
\* past a tileset that has tiles), and the merged ranges exactly partition
\* [0, sum of all tile_count).
C5_OffsetsPartitionNonNegative ==
  (\A k \in 1..Len(tileset_list) : Count(k) >= 0) =>
    /\ \A k \in 1..(Len(tileset_list) - 1) :
         /\ Offset(k) <= Offset(k + 1)
         /\ (Offset(k) < Offset(k + 1)) <=> (Count(k) > 0)
    /\ RangesPartition

\* C5 witness: two tilesets with tiles, the first with an hva:tiles override
C5_Witness ==
  /\ Len(tileset_list) = 2
  /\ Count(1) = 3 /\ Count(2) = 2
  /\ Offset(1) = 0 /\ Offset(2) = 3

(* ------------------------------- C6 ----------------------------------- *)
\* the decimal text of an integer
IntText(v) == IF v < 0 THEN Neg(-v) ELSE Dec(v)

\* the integer values V of the hva:tiles properties of tileset document tsx
Overrides(tsx) ==
  IF tsx.properties = None THEN {}
  ELSE {v \in -3..5 : \E i \in 1..Len(tsx.properties[1]) :
          /\ tsx.properties[1][i].name = "hva:tiles"
          /\ tsx.properties[1][i].value = IntText(v)}

\* the number of tile records written for the tileset at 1-based position k
RecordsOf(k) == Cardinality({i \in 1..Len(tres.tiles) : tres.tiles[i].texture = k})

\* the number of raw tile values the source range of tileset k holds
RangeWidth(k) == Cardinality({v \in -4..12 : InRange(v, tileset_list[k])})

TilesWritten == pc \in {"scene", "done"}

\* C6 as stated: a tileset with hva:tiles = V has effective tile_count V: V
\* tile records are written for it, its source range is V wide, and V is
\* what it adds to the merged offset of the tilesets after it.
C6_OverrideIsTileCount ==
  \A k \in 1..Len(tileset_list) : \A V \in Overrides(doc.tilesets[k].tsx) :
    /\ Count(k) = V
    /\ RangeWidth(k) = V
    /\ k < Len(tileset_list) => Offset(k + 1) = Offset(k) + V
    /\ TilesWritten => RecordsOf(k) = V

\* C6 amended: a tileset with hva:tiles = V has effective tile_count V, and
\* V is what it adds to the merged offset of the tilesets after it; V tile
\* records are written for it and its source range is V wide when V >= 0,
\* and none and empty when V < 0.
C6_OverrideIsTileCountClamped ==
  \A k \in 1..Len(tileset_list) : \A V \in Overrides(doc.tilesets[k].tsx) :
    LET width == IF V >= 0 THEN V ELSE 0
    IN  /\ Count(k) = V
        /\ RangeWidth(k) = width
        /\ k < Len(tileset_list) => Offset(k + 1) = Offset(k) + V
        /\ TilesWritten => RecordsOf(k) = width

\* C6 witness: the first of two tilesets declares 2 tiles and overrides them
\* by 3; three records are written for it and the second starts at 3
C6_Witness ==
  /\ pc = "done"
  /\ Len(tileset_list) = 2
  /\ Overrides(doc.tilesets[1].tsx) = {3}
  /\ doc.tilesets[1].tsx.tilecount = Dec(2)
  /\ RecordsOf(1) = 3
  /\ Offset(2) = 3

(* ------------------------------- C7 ----------------------------------- *)
\* the error kind a ConversionError message stands for
Kind(e) ==
  CASE e.msg \in {"Tilemap file cannot be found", "Tileset file cannot be found"} -> "NotFound"
    [] e.msg \in {"Tilemap file must be .tmx format", "Tileset file must be .tsx format"}
         -> "WrongFileType"
    [] e.msg \in {"No properties found in Tilemap", "Property hva:mode not provided in Tilemap",
                  "Property hva:name not provided in Tilemap"} -> "MissingProperty"
    [] e.msg = "Property \"hva:tiles\" in Tileset must be a number" -> "InvalidProperty"
    [] e.msg = "Tilemaps must be encoded in csv format!" -> "UnsupportedEncoding"
    [] OTHER -> e.type

\* the .tmx has no custom property named key
Lacks(key) ==
  \/ doc.properties = None
  \/ \A i \in 1..Len(doc.properties[1]) : doc.properties[1][i].name # key

Readable == doc.exists /\ EndsWith(doc.path, <<".", "t", "m", "x">>)

\* C7: a tile-map without hva:name or without hva:mode fails to load with a
\* MissingProperty error before any tileset document is loaded and before
\* any layer is decoded.
C7_MissingPropertyFirst ==
  (Readable /\ (Lacks("hva:name") \/ Lacks("hva:mode"))) =>
    /\ pc \in {"open", "properties", "failed"}
    /\ pc = "failed" => (err.type = "ConversionError" /\ Kind(err) = "MissingProperty")
    /\ tileset_list = <<>> /\ layers = <<>> /\ cur = NoLoop /\ result = None

\* C7 witness: hva:mode is given, hva:name is not, and the load has failed
C7_Witness ==
  /\ Readable /\ Lacks("hva:name") /\ ~Lacks("hva:mode")
  /\ doc.tilesets # <<>> /\ doc.layers # <<>>
  /\ pc = "failed"
  /\ err = ConversionErrorNaming("Property hva:name not provided in Tilemap", TmxPath)
(* ------------------------------- C8 ----------------------------------- *)
\* the (row, column) pairs, from 0, of the non-zero cells of a grid
FilledCells(grid) ==
  UNION { {<<r, c>> : c \in {x \in 0..(Len(grid[r + 1]) - 1) : grid[r + 1][x + 1] # 0}} :
          r \in 0..(Len(grid) - 1) }

\* tile_data lists exactly the non-zero cells of grid, row by row, each as
\* (column + row * 65536, cell value, 0)
ListsFilledCells(tile_data, grid) ==
  /\ Len(tile_data) = Cardinality(FilledCells(grid))
  /\ \A j \in 1..Len(tile_data) : \E rc \in FilledCells(grid) :
       tile_data[j] = <<rc[2] + rc[1] * 65536, grid[rc[1] + 1][rc[2] + 1], 0>>
  /\ \A j \in 1..(Len(tile_data) - 1) : tile_data[j][1] < tile_data[j + 1][1]

\* C8: the tile_data of every layer of the scene is the row-major sequence
\* of (column + row * 65536, cell value, 0) over the non-zero cells of the
\* layer, and nothing for the cells that are 0; the grid [[1,0],[0,2]] gives
\* (0,1,0), (65537,2,0).
C8_SparseRowMajor ==
  pc = "done" =>
    /\ Len(tscn.nodes) = Len(layers)
    /\ \A i \in 1..Len(layers) :
         /\ ListsFilledCells(tscn.nodes[i].tile_data, layers[i][2])
         /\ layers[i][2] = << <<1, 0>>, <<0, 2>> >> =>
              tscn.nodes[i].tile_data = << <<0, 1, 0>>, <<65537, 2, 0>> >>

\* C8 witness: the layer "1,0\n0,2" over one tileset of 4 tiles, converted
C8_Witness ==
  /\ pc = "done"
  /\ Len(layers) = 1
  /\ layers[1][2] = << <<1, 0>>, <<0, 2>> >>
  /\ result[1].tscn.nodes[1].tile_data = << <<0, 1, 0>>, <<65537, 2, 0>> >>

(* ------------------------------- C9 ----------------------------------- *)
RECURSIVE TilesBefore(_)
\* the tiles of the first n declared tilesets, a negative count being none
TilesBefore(n) ==
  IF n = 0 THEN 0 ELSE TilesBefore(n - 1) + (IF Count(n) > 0 THEN Count(n) ELSE 0)

\* one ext_resource per tileset, ids 1..n in tileset order
ExtResourcesInOrder ==
  /\ Len(tres.ext_resources) = Len(tileset_list)
  /\ \A k \in 1..Len(tileset_list) :
       tres.ext_resources[k] = [id |-> k, path |-> tileset_list[k][1].image]

\* the tile records carry ids 1, 2, 3, ... and the record of tile i of the
\* tileset at position k - 1 follows those of the tilesets before it, names
\* texture k and the region of column i mod columns, row i div columns
RecordsInOrder(before(_)) ==
  /\ \A j \in 1..Len(tres.tiles) : tres.tiles[j].id = j
  /\ \A k \in 1..Len(tileset_list) : \A i \in 0..(Count(k) - 1) :
       LET set == tileset_list[k][1]
           j == before(k - 1) + i + 1
       IN  /\ j \in 1..Len(tres.tiles)
           /\ tres.tiles[j].texture = k
           /\ tres.tiles[j].region =
                << (i % set.columns) * set.tile_size[1],
                   (i \div set.columns) * set.tile_size[2],
                   set.tile_size[1], set.tile_size[2] >>

\* C9 as stated: one ext_resource per tileset with ids 1..n in tileset
\* order, and one tile record per tile, sum of effective tile_count in all,
\* with ids 1, 2, 3, ... across tilesets, each naming texture s + 1 and the
\* region Rect2((i mod columns) * tile_width, (i div columns) * tile_height,
\* tile_width, tile_height).
C9_RecordsPerTile ==
  TilesWritten =>
    /\ ExtResourcesInOrder
    /\ Len(tres.tiles) = CountSum(Len(tileset_list))
    /\ RecordsInOrder(CountSum)

\* C9 amended: as stated, the number of tile records being the sum of the
\* effective tile_count of the tilesets with a negative tile_count counted
\* as 0 (such a tileset gets no record).
C9_RecordsPerTileClamped ==
  TilesWritten =>
    /\ ExtResourcesInOrder
    /\ Len(tres.tiles) = TilesBefore(Len(tileset_list))
    /\ RecordsInOrder(TilesBefore)

\* C9 witness: 3 tiles of 16x16 in 2 columns, then 2 tiles of 8x4 in 1
C9_Witness ==
  /\ pc = "done"
  /\ Len(tileset_list) = 2
  /\ Len(tres.tiles) = 5
  /\ tres.tiles[3].texture = 1 /\ tres.tiles[3].region = <<0, 16, 16, 16>>
  /\ tres.tiles[5].texture = 2 /\ tres.tiles[5].region = <<0, 4, 8, 4>>

(* ------------------------------- C10 ---------------------------------- *)
RECURSIVE ShapesBefore(_)
\* the shapes of the first n declared tilesets
ShapesBefore(n) ==
  IF n = 0 THEN 0 ELSE ShapesBefore(n - 1) + Len(tileset_list[n][1].shapes)

RECURSIVE OwnShapeIds(_, _, _)
\* the sub-resource ids of the shapes of tile i of declared tileset k, in
\* discovery order, from the m-th shape of the tileset on
OwnShapeIds(k, i, m) ==
  LET shapes == tileset_list[k][1].shapes
  IN  IF m > Len(shapes) THEN <<>>
      ELSE (IF shapes[m][1] = i THEN <<tres.sub_resources[ShapesBefore(k - 1) + m].id>>
            ELSE <<>>)
           \o OwnShapeIds(k, i, m + 1)

\* C10: the tile record of a tile that owns k >= 1 shapes embeds a reference
\* to the collision sub-resource of each of the k, in discovery order.
C10_AllShapesEmbedded ==
  TilesWritten =>
    \A k \in 1..Len(tileset_list) : \A i \in 0..(Count(k) - 1) :
      OwnShapeIds(k, i, 1) # <<>> =>
        tres.tiles[TilesBefore(k - 1) + i + 1].shapes = OwnShapeIds(k, i, 1)

(* ------------------------------- C11 ---------------------------------- *)
\* C11: the shape field of the tile record of a tile that owns at least one
\* shape is the sub-resource id of the first discovered shape of that tile,
\* also when the tile owns several.
C11_PrimaryIsFirst ==
  TilesWritten =>
    \A k \in 1..Len(tileset_list) : \A i \in 0..(Count(k) - 1) :
      OwnShapeIds(k, i, 1) # <<>> =>
        tres.tiles[TilesBefore(k - 1) + i + 1].shape = Some(OwnShapeIds(k, i, 1)[1])

(* ------------------------------- C12 ---------------------------------- *)
SubResourcesWritten == pc \in {"tiles", "scene", "done"}

\* points is the flat coordinate sequence x1, y1, x2, y2, ... of shape
ListsPoints(points, shape) ==
  /\ Len(points) = 2 * Len(shape[3])
  /\ \A p \in 1..Len(shape[3]) :
       points[2 * p - 1] = shape[3][p][1] /\ points[2 * p] = shape[3][p][2]

\* one sub-resource per shape, in tileset order and then discovery order,
\* the j-th of them carrying id first + j
SubResourcesFrom(first) ==
  /\ Len(tres.sub_resources) = ShapesBefore(Len(tileset_list))
  /\ \A k \in 1..Len(tileset_list) : \A m \in 1..Len(tileset_list[k][1].shapes) :
       LET j == ShapesBefore(k - 1) + m
       IN  /\ tres.sub_resources[j].id = first + j
           /\ ListsPoints(tres.sub_resources[j].points, tileset_list[k][1].shapes[m])

\* C12 as stated: one collision sub-resource per discovered shape, in
\* tileset order and then discovery order, with ids that continue after the
\* image ids: with n tileset images the j-th shape gets id n + j.
C12_IdsAfterImages == SubResourcesWritten => SubResourcesFrom(Len(tileset_list))

\* C12 amended: one collision sub-resource per discovered shape, in tileset
\* order and then discovery order, with ids of their own that start at 1:
\* the j-th shape gets id j, however many tileset images there are.
C12_IdsFromOne == SubResourcesWritten => SubResourcesFrom(0)

\* C12 witness: two tilesets with 2 shapes and 1 shape; the shape of the
\* second tileset is the third sub-resource and carries id 3
C12_Witness ==
  /\ pc = "done"
  /\ Len(tileset_list) = 2
  /\ Len(tileset_list[1][1].shapes) = 2 /\ Len(tileset_list[2][1].shapes) = 1
  /\ Len(tres.sub_resources) = 3
  /\ tres.sub_resources[3].id = 3
  /\ tres.sub_resources[3].points = <<0, 0, 0, 8, 5, 8, 5, 0>>

(* ------------------------------- C13 ---------------------------------- *)
\* C13: the load_steps of the header of the tileset resource is the number
\* of tileset images + the number of shapes of all tilesets + 1, also with
\* no shape and with no tileset.
C13_LoadSteps ==
  TilesWritten =>
    tres.load_steps = Len(tileset_list) + ShapesBefore(Len(tileset_list)) + 1

\* C13 witness: two tilesets, three shapes between them, load_steps 6
C13_Witness ==
  /\ pc = "done"
  /\ Len(tileset_list) = 2
  /\ ShapesBefore(2) = 3
  /\ result[1].tres.load_steps = 6

\* a conversion of a tile-map without tileset, and of one with tilesets that
\* have no shape, ends with load_steps 1 and 1 + the number of tilesets
C13_NoTileset == pc = "done" /\ tileset_list = <<>> /\ tres.load_steps = 1
C13_NoShape ==
  pc = "done" /\ Len(tileset_list) = 2 /\ ShapesBefore(2) = 0 /\ tres.load_steps = 3

(* ------------------------------- C14 ---------------------------------- *)
\* the path of tileset document tsx exists and ends with .tsx
Loadable(tsx) == tsx.exists /\ EndsWith(tsx.source, <<".", "t", "s", "x">>)

\* tileset document tsx has a property hva:tiles whose value is no integer
NonIntegerOverride(tsx) ==
  /\ tsx.properties # None
  /\ \E i \in 1..Len(tsx.properties[1]) : tsx.properties[1][i].name = "hva:tiles"
  /\ \A i \in 1..Len(tsx.properties[1]) :
       tsx.properties[1][i].name = "hva:tiles" => ~PyInt(tsx.properties[1][i].value).ok

\* C14: a tileset whose hva:tiles property is present with a value that is
\* no integer, the empty string included, fails to load with an
\* InvalidProperty error and never falls back to the declared tilecount.
C14_NonIntegerOverrideFatal ==
  \A k \in 1..Len(doc.tilesets) :
    (Loadable(doc.tilesets[k].tsx) /\ NonIntegerOverride(doc.tilesets[k].tsx)) =>
      /\ Len(tileset_list) < k
      /\ (pc = "failed" /\ Len(tileset_list) = k - 1) =>
           (err.type = "ConversionError" /\ Kind(err) = "InvalidProperty")

(* ------------------------------- C15 ---------------------------------- *)
\* the collision object that shape m of declared tileset k was made from:
\* the object_id-th object of the tileset document
ObjectOf(k, m) ==
  TileObjects(doc.tilesets[k].tsx.tiles)[tileset_list[k][1].shapes[m][2]].object

\* v clamped into [0, most]
Clamped(v, most) == IF v < 0 THEN 0 ELSE IF v > most THEN most ELSE v

\* C15: every stored vertex of a polygon collision object is the declared
\* point translated by the object's origin (x, y) and clamped into
\* [0, tile_width] x [0, tile_height]; no stored point lies outside the tile.
C15_PolygonClamped ==
  \A k \in 1..Len(tileset_list) : \A m \in 1..Len(tileset_list[k][1].shapes) :
    LET set == tileset_list[k][1]
        object == ObjectOf(k, m)
        stored == set.shapes[m][3]
    IN  object.width = None =>
          LET declared == object_to_points(0, 0, object.children[1].points[1])
              x == IntOf(PyInt(object.x))
              y == IntOf(PyInt(object.y))
          IN  /\ Len(stored) = Len(declared)
              /\ \A p \in 1..Len(stored) :
                   /\ stored[p][1] = Clamped(declared[p][1] + x, set.tile_size[1])
                   /\ stored[p][2] = Clamped(declared[p][2] + y, set.tile_size[2])
                   /\ stored[p][1] \in 0..set.tile_size[1]
                   /\ stored[p][2] \in 0..set.tile_size[2]

(* ------------------------------- C16 ---------------------------------- *)
\* the corners of the axis-aligned rectangle of origin (x, y) and size
\* (width, height)
Corners(x, y, width, height) ==
  { <<x, y>>, <<x + width, y>>, <<x + width, y + height>>, <<x, y + height>> }

\* C16: a collision object that declares width and height and lies inside
\* the tile is stored as exactly 4 points, the corners of the rectangle of
\* origin (x, y) and size (width, height), each within
\* [0, tile_width] x [0, tile_height]; x=2, y=3, width=10, height=8 on a
\* 16x16 tile gives 4 points inside the tile.
C16_RectangleCorners ==
  \A k \in 1..Len(tileset_list) : \A m \in 1..Len(tileset_list[k][1].shapes) :
    LET set == tileset_list[k][1]
        object == ObjectOf(k, m)
        stored == set.shapes[m][3]
    IN  object.width # None =>
          LET x == IntOf(PyInt(object.x))
              y == IntOf(PyInt(object.y))
              width == IntOf(PyInt(object.width[1]))
              height == IntOf(PyInt(object.height[1]))
          IN  (x >= 0 /\ y >= 0 /\ x + width <= set.tile_size[1]
                 /\ y + height <= set.tile_size[2]) =>
                /\ Len(stored) = 4
                /\ {stored[p] : p \in 1..4} = Corners(x, y, width, height)
                /\ \A p \in 1..4 : /\ stored[p][1] \in 0..set.tile_size[1]
                                   /\ stored[p][2] \in 0..set.tile_size[2]

\* the part of C16 that fails for other rectangles only: the 4 stored
\* points of a rectangle inside the tile lie inside the tile
C16_RectangleInTile ==
  \A k \in 1..Len(tileset_list) : \A m \in 1..Len(tileset_list[k][1].shapes) :
    LET set == tileset_list[k][1]
        object == ObjectOf(k, m)
        stored == set.shapes[m][3]
    IN  (/\ object.width # None
         /\ IntOf(PyInt(object.x)) + IntOf(PyInt(object.width[1])) <= set.tile_size[1]
         /\ IntOf(PyInt(object.y)) + IntOf(PyInt(object.height[1])) <= set.tile_size[2]) =>
          \A p \in 1..Len(stored) : /\ stored[p][1] \in 0..set.tile_size[1]
                                    /\ stored[p][2] \in 0..set.tile_size[2]

(* ------------------------------- C17 ---------------------------------- *)
\* the object declares neither a width nor a polygon body
Bare(object) == object.width = None /\ object.children = <<>>

\* the positions, in discovery order, of the bare objects of a tileset document
BareObjects(tsx) ==
  {n \in 1..Len(TileObjects(tsx.tiles)) : Bare(TileObjects(tsx.tiles)[n].object)}

\* C17: a collision object that declares neither width/height nor a polygon
\* body is skipped: it gives no shape, the load does not fail, and the other
\* objects and tiles of the tileset are still processed.
C17_BareObjectSkipped ==
  \A k \in 1..Len(doc.tilesets) :
    LET tsx == doc.tilesets[k].tsx
    IN  BareObjects(tsx) # {} =>
          /\ (pc = "failed" /\ Len(tileset_list) = k - 1) => err.type = "ConversionError"
          /\ Len(tileset_list) >= k =>
               LET shapes == tileset_list[k][1].shapes
               IN  /\ Len(shapes) = Len(TileObjects(tsx.tiles)) - Cardinality(BareObjects(tsx))
                   /\ \A m \in 1..Len(shapes) : shapes[m][2] \notin BareObjects(tsx)

(* ------------------------------- C18 ---------------------------------- *)
\* a <layer> whose <data> declares another encoding than csv, or none
NonCsv(layer) == layer.data # None /\ layer.data[1].encoding # Some("csv")

\* the <layer> elements before the i-th that have a <data> element
DataLayersBefore(i) == Cardinality({j \in 1..(i - 1) : doc.layers[j].data # None})

\* the load has passed the properties and every tileset
ReachedLayers == name # <<>> /\ Len(tileset_list) = Len(doc.tilesets)

\* C18: a tile layer whose data is not csv-encoded (or declares no encoding)
\* makes the load of the tile-map fail with an UnsupportedEncoding error,
\* whatever its position among the layers: the load is never completed, the
\* layer is never decoded, and the failure at it is UnsupportedEncoding.
C18_NonCsvFatal ==
  \A i \in 1..Len(doc.layers) :
    NonCsv(doc.layers[i]) =>
      /\ pc \notin {"ext_resources", "sub_resources", "tiles", "scene", "done"}
      /\ result = None
      /\ cur.layer < i
      /\ Len(layers) <= DataLayersBefore(i)
      /\ (pc = "failed" /\ ReachedLayers /\ Len(layers) = DataLayersBefore(i)) =>
           (err.type = "ConversionError" /\ Kind(err) = "UnsupportedEncoding")

\* C18 witness: a csv layer, decoded, then a base64 layer, at which the load
\* has failed
C18_Witness ==
  /\ Len(doc.layers) = 2
  /\ ~NonCsv(doc.layers[1]) /\ doc.layers[1].data # None
  /\ doc.layers[2].data # None /\ doc.layers[2].data[1].encoding = Some("base64")
  /\ Len(layers) = 1
  /\ pc = "failed"
  /\ err = ConversionError("Tilemaps must be encoded in csv format!")

(* ------------------------------- C19 ---------------------------------- *)
Taxonomy ==
  {"NotFound", "WrongFileType", "MissingProperty", "InvalidProperty", "UnsupportedEncoding"}

\* the conversion has ended with an error of the taxonomy
FailedInTaxonomy == err.type = "ConversionError" /\ Kind(err) \in Taxonomy

\* the document whose load raised the error: the tileset being loaded when
\* the error is one of Tileset, the tile-map otherwise
FailedTileset == doc.tilesets[Len(tileset_list) + 1].tsx

\* the property name spelled out in the message of the error, if any
PropertyNamed(e) ==
  CASE e.msg = "Property hva:mode not provided in Tilemap" -> Some("hva:mode")
    [] e.msg = "Property hva:name not provided in Tilemap" -> Some("hva:name")
    [] e.msg = "Property \"hva:tiles\" in Tileset must be a number" -> Some("hva:tiles")
    [] OTHER -> None

\* nothing of the output exists: the texts are not begun, nothing is saved
NoOutput ==
  /\ result = None
  /\ tres = [load_steps |-> 0, ext_resources |-> <<>>, sub_resources |-> <<>>, tiles |-> <<>>]
  /\ tscn = [tres_path |-> <<>>, root |-> <<>>, nodes |-> <<>>]
  /\ ext_resource_id = 0 /\ sub_resource_id = 0 /\ tile_objects = <<>>

\* C19 as stated: a conversion that fails with an error of the taxonomy
\* aborts with an error that identifies the kind and the offending path
\* (NotFound, WrongFileType) or property name (MissingProperty,
\* InvalidProperty), and no part of the output is produced.
C19_ErrorNamesOffender ==
  (err # NoError /\ FailedInTaxonomy) =>
    /\ pc = "failed"
    /\ NoOutput
    /\ Kind(err) \in {"NotFound", "WrongFileType"} =>
         err.arg \in { Some(doc.path) } \cup
                     { Some(doc.tilesets[k].tsx.source) : k \in 1..Len(doc.tilesets) }
    /\ Kind(err) \in {"MissingProperty", "InvalidProperty"} => PropertyNamed(err) # None

\* C19 amended: a conversion that fails with an error of the taxonomy aborts
\* with a ConversionError that carries a message and nothing else; the
\* message tells the kind; it names the property and the file name of the
\* tile-map for a missing hva:mode or hva:name, the file name alone when
\* there is no <properties> element, hva:tiles and the name of the tileset
\* for InvalidProperty, and no path, file or layer for NotFound,
\* WrongFileType and UnsupportedEncoding; no part of the output is produced.
C19_MessageOnlyNoOutput ==
  (err # NoError /\ FailedInTaxonomy) =>
    /\ pc = "failed"
    /\ NoOutput
    /\ DOMAIN err = {"type", "msg", "arg"}
    /\ Kind(err) \in {"NotFound", "WrongFileType", "UnsupportedEncoding"} =>
         (err.arg = None /\ PropertyNamed(err) = None)
    /\ Kind(err) = "MissingProperty" =>
         /\ err.arg = Some(Basename(doc.path))
         /\ PropertyNamed(err) = None <=> doc.properties = None
         /\ PropertyNamed(err) # None =>
              ~Truthy(DictGet(doc.properties[1], PropertyNamed(err)[1]))
    /\ Kind(err) = "InvalidProperty" =>
         /\ err.arg = Some(FailedTileset.name)
         /\ PropertyNamed(err) = Some("hva:tiles")
         /\ NonIntegerOverride(FailedTileset)

\* C19 witness: the second tileset of a tile-map cannot be found after the
\* first was loaded; the error carries no path and nothing is produced
C19_Witness ==
  /\ pc = "failed"
  /\ Len(doc.tilesets) = 2 /\ Len(tileset_list) = 1
  /\ ~doc.tilesets[2].tsx.exists
  /\ err = ConversionError("Tileset file cannot be found")
  /\ NoOutput

(* ------------------------------- C20 ---------------------------------- *)
\* GrabTileset has acted on the k-th declared tileset and its load failed
FailedAtTileset(k) ==
  pc = "failed" /\ name # <<>> /\ Len(tileset_list) = k - 1 /\ k <= Len(doc.tilesets)

\* C20: a tileset loads only if its path exists and ends with .tsx; a path
\* that does not exist fails with NotFound, an existing path with another
\* extension with WrongFileType, the existence being tested first, and in
\* neither case is the document read.
C20_TilesetPathChecked ==
  \A k \in 1..Len(doc.tilesets) :
    LET tsx == doc.tilesets[k].tsx
    IN  /\ Len(tileset_list) >= k => Loadable(tsx)
        /\ (FailedAtTileset(k) /\ ~tsx.exists) =>
             err = ConversionError("Tileset file cannot be found")
        /\ (FailedAtTileset(k) /\ tsx.exists /\ ~Loadable(tsx)) =>
             err = ConversionError("Tileset file must be .tsx format")
        /\ (FailedAtTileset(k) /\ Kind(err) \in {"NotFound", "WrongFileType"}) =>
             ~Loadable(tsx)

\* C20 witness: a tileset path that neither exists nor ends with .tsx, over
\* a document whose hva:tiles is no integer: the load failed with NotFound
C20_Witness ==
  /\ FailedAtTileset(1)
  /\ ~doc.tilesets[1].tsx.exists
  /\ ~EndsWith(doc.tilesets[1].tsx.source, <<".", "t", "s", "x">>)
  /\ NonIntegerOverride(doc.tilesets[1].tsx)
  /\ Kind(err) = "NotFound"

\* an existing path with another extension, the document unreadable as a
\* tileset: the load failed with WrongFileType
C20_WrongFileType ==
  /\ FailedAtTileset(2)
  /\ doc.tilesets[2].tsx.exists
  /\ NonIntegerOverride(doc.tilesets[2].tsx)
  /\ Kind(err) = "WrongFileType"

(* ------------------------------- C21 ---------------------------------- *)
UpperLetters ==
  <<"A", "B", "C", "D", "E", "F", "G", "H", "I", "J", "K", "L", "M",
    "N", "O", "P", "Q", "R", "S", "T", "U", "V", "W", "X", "Y", "Z">>
LowerLetters ==
  <<"a", "b", "c", "d", "e", "f", "g", "h", "i", "j", "k", "l", "m",
    "n", "o", "p", "q", "r", "s", "t", "u", "v", "w", "x", "y", "z">>

\* t is s with every upper-case letter replaced by its lower-case letter
LowerCased(s, t) ==
  /\ Len(t) = Len(s)
  /\ \A i \in 1..Len(s) :
       IF \E n \in 1..26 : UpperLetters[n] = s[i]
       THEN \E n \in 1..26 : UpperLetters[n] = s[i] /\ LowerLetters[n] = t[i]
       ELSE t[i] = s[i]

\* the value of the last property of that name of the tile-map document
Given(key) ==
  LET at == {i \in 1..Len(doc.properties[1]) : doc.properties[1][i].name = key}
  IN  doc.properties[1][CHOOSE i \in at : \A j \in at : j <= i].value

\* C21: the scene names the tileset resource lower(mode) + "_" + lower(name)
\* + ".tres" and its root node mode + "_" + lower(name), mode and name being
\* the values of hva:mode and hva:name: both are functions of the two values
\* alone, the case of mode being kept in the node name.
C21_NamesFromModeAndName ==
  pc = "done" =>
    LET m == Given("hva:mode")
        n == Given("hva:name")
        path == result[1].tscn.tres_path
        root == result[1].tscn.root
    IN  /\ Len(path) = Len(m) + 1 + Len(n) + 5
        /\ LowerCased(m, SubSeq(path, 1, Len(m)))
        /\ path[Len(m) + 1] = "_"
        /\ LowerCased(n, SubSeq(path, Len(m) + 2, Len(m) + 1 + Len(n)))
        /\ SubSeq(path, Len(path) - 4, Len(path)) = <<".", "t", "r", "e", "s">>
        /\ Len(root) = Len(m) + 1 + Len(n)
        /\ SubSeq(root, 1, Len(m)) = m
        /\ root[Len(m) + 1] = "_"
        /\ LowerCased(n, SubSeq(root, Len(m) + 2, Len(root)))

\* C21 witness: mode "cTF" and name "Map" give "ctf_map.tres" and "cTF_map"
C21_Witness ==
  /\ pc = "done"
  /\ Given("hva:mode") = <<"c", "T", "F">> /\ Given("hva:name") = <<"M", "a", "p">>
  /\ result[1].tscn.tres_path =
       <<"c", "t", "f", "_", "m", "a", "p", ".", "t", "r", "e", "s">>
  /\ result[1].tscn.root = <<"c", "T", "F", "_", "m", "a", "p">>

(* ------------------------------- C22 ---------------------------------- *)
\* the directory of a path: the text before its last "/"
DirOf(path) ==
  LET at == {i \in 1..Len(path) : path[i] = "/"}
  IN  IF at = {} THEN <<>> ELSE SubSeq(path, 1, CHOOSE i \in at : \A j \in at : j <= i)

\* image resolved against the directory of the tileset document at source
ResolvedImage(source, image) ==
  LET joined == DirOf(source) \o image
  IN  IF joined # <<>> /\ Head(joined) = "/" THEN <<"/">> \o NormPath(Tail(joined))
      ELSE NormPath(joined)

\* C22: a successful Convert returns an image list with one entry per
\* declared tileset, in declaration order, each the path of the tileset's
\* image resolved against the directory of the tileset document (absolute
\* when that directory is), while the text embeds the raw relative form.
C22_ImagesResolved ==
  pc = "done" =>
    /\ Len(result[1].images) = Len(doc.tilesets)
    /\ \A k \in 1..Len(doc.tilesets) :
         LET tsx == doc.tilesets[k].tsx
         IN  /\ result[1].images[k] = ResolvedImage(tsx.source, tsx.image)
             /\ (Head(tsx.source) = "/") => (Head(result[1].images[k]) = "/")
             /\ result[1].tres.ext_resources[k].path = tsx.image

(* ------------------------------- C23 ---------------------------------- *)
\* the inverse of the flag table: the flip triple (0..7) of a signed 3-bit
\* replacement code
InverseFlags(code) ==
  CASE code = 0 -> 0 [] code = -4 -> 1 [] code = 2 -> 2 [] code = -2 -> 3
    [] code = 1 -> 4 [] code = -3 -> 5 [] code = 3 -> 6 [] code = -1 -> 7

\* a resolved cell value split into its rotation code (the multiple of 2^29
\* below it) and its tile id (what is left, in [0, 2^29))
CodeOf(v) == v \div TwoTo29
IdOf(v) == v - CodeOf(v) * TwoTo29

\* the stored cell gives back the top 3 bits of the token it was decoded from
TopBitsBack ==
  /\ CodeOf(LastStored) \in -4..3
  /\ InverseFlags(CodeOf(LastStored)) = TokenParts(cell.token)[1]

C23_TopBitsRecoveredWhenHeld ==
  (CellStored /\ Holding(TokenParts(cell.token)[2]) # {}) => TopBitsBack

DataLayerAt(j) ==
  CHOOSE i \in 1..Len(doc.layers) :
    doc.layers[i].data # None /\ DataLayersBefore(i) = j - 1

IsIntegerToken(token) == TokenParts(token) # <<>>

\* what an integer token resolves to against the declared tilesets
Resolved(token) ==
  LET parts == TokenParts(token)
      holding == Holding(parts[2])
  IN  IF holding = {} THEN 0
      ELSE LET k == CHOOSE i \in holding : \A j \in holding : i <= j
           IN  parts[2] - tileset_list[k][2] + 1 + CountSum(k - 1)
               + ReplacementCode(parts[1]) * TwoTo29

\* the lines of the stripped csv payload of <layer> element i, each split at
\* its commas
PayloadLines(i) ==
  LET lines == Split(Strip(doc.layers[i].data[1].text), "\n")
  IN  [r \in 1..Len(lines) |-> Split(lines[r], ",")]

\* C25: a token that is no integer is skipped without error and gives no
\* cell: the load never fails at one, the grid of a layer has one row per
\* text line of the stripped payload, a row has one cell per integer token of
\* its line, and the cell at column c is the one of the c-th integer token.
C25_GridFromIntegerTokens ==
  /\ (pc = "failed" /\ cur.rows # <<>>) => IsIntegerToken(AtToken)
  /\ \A j \in 1..Len(layers) :
       LET lines == PayloadLines(DataLayerAt(j))
           grid == layers[j][2]
       IN  /\ Len(grid) = Len(lines)
           /\ \A r \in 1..Len(lines) :
                LET ints == SelectSeq(lines[r], IsIntegerToken)
                IN  /\ Len(grid[r]) = Len(ints)
                    /\ \A c \in 1..Len(ints) : grid[r][c] = Resolved(ints[c])

\* C25 witness: a line of a token that is no integer followed by one that
\* is, stored as a row of the one cell, at column 0
C25_Witness ==
  /\ Len(layers) = 1
  /\ LET lines == PayloadLines(DataLayerAt(1))
     IN  /\ Len(lines[1]) = 2
         /\ ~IsIntegerToken(lines[1][1])
         /\ IsIntegerToken(lines[1][2])
         /\ Len(layers[1][2][1]) = 1
         /\ layers[1][2][1][1] = Resolved(lines[1][2])
         /\ layers[1][2][1][1] # 0


(* ------------------------------- C26 ---------------------------------- *)
\* a Shape keyed by (declared tileset k, tile-local id i) exists
HasShape(k, i) ==
  \E m \in 1..Len(tileset_list[k][1].shapes) : tileset_list[k][1].shapes[m][1] = i

\* C26: the tile record of a tile for which no Shape keyed by (tileset,
\* tile-local id) exists carries no primary shape reference and no embedded
\* shape entry, and a record carries a primary shape reference only if such
\* a Shape exists.
C26_NoShapeNoFields ==
  TilesWritten =>
    \A k \in 1..Len(tileset_list) : \A i \in 0..(Count(k) - 1) :
      LET record == tres.tiles[TilesBefore(k - 1) + i + 1]
      IN  /\ ~HasShape(k, i) => (record.shape = None /\ record.shapes = <<>>)
          /\ record.shape # None => HasShape(k, i)

\* C26 witness: tile 0 of the first tileset has a shape and its record the
\* shape fields, tile 0 of the second has none and its record neither field
C26_Witness ==
  /\ pc = "done"
  /\ Len(tileset_list) = 2
  /\ Count(1) = 3 /\ Count(2) = 2
  /\ HasShape(1, 0) /\ ~HasShape(2, 0)
  /\ tres.tiles[1].shape # None /\ tres.tiles[1].shapes # <<>>
  /\ tres.tiles[4].shape = None /\ tres.tiles[4].shapes = <<>>


(* ------------------------------- C27 ---------------------------------- *)
\* the token the cell at (row, column), from 0, of stored layer j was
\* decoded from: the (column + 1)-th integer token of line row + 1
TokenAt(j, row, column) ==
  SelectSeq(PayloadLines(DataLayerAt(j))[row + 1], IsIntegerToken)[column + 1]

\* the emitted cell entry of stored layer j refers to the tile record of the
\* tile it was matched to: its value less its rotation contribution is an id
\* n in 1..most, and the record of id n is the one of the first tileset whose
\* source range holds the raw tile value, at tile-local index raw - first gid
RefersToItsTile(j, entry, most) ==
  LET parts == TokenParts(TokenAt(j, entry[1] \div PositionStride, entry[1] % PositionStride))
      n == entry[2] - ReplacementCode(parts[1]) * TwoTo29
      holding == Holding(parts[2])
  IN  /\ 1 <= n /\ n <= most
      /\ holding # {}
      /\ LET k == CHOOSE x \in holding : \A y \in holding : x <= y
             i == parts[2] - tileset_list[k][2]
             set == tileset_list[k][1]
             records == {x \in 1..Len(tres.tiles) : tres.tiles[x].id = n}
         IN  /\ records # {}
             /\ \A x \in records :
                  /\ tres.tiles[x].texture = k
                  /\ tres.tiles[x].region =
                       << (i % set.columns) * set.tile_size[1],
                          (i \div set.columns) * set.tile_size[2],
                          set.tile_size[1], set.tile_size[2] >>

EveryCellRefersToItsTile ==
  \A j \in 1..Len(tscn.nodes) : \A e \in 1..Len(tscn.nodes[j].tile_data) :
    RefersToItsTile(j, tscn.nodes[j].tile_data[e], CountSum(Len(tileset_list)))

\* C27: every non-zero cell of the scene text, less its rotation
\* contribution, is an id n with 1 <= n <= sum of the effective tile_count,
\* and the tile record of id n is the record of the tileset and the
\* tile-local index the cell was matched to.
C27_CellsReferToTheirTiles == pc = "done" => EveryCellRefersToItsTile

\* C27 amended: the same for the tile-maps none of whose tilesets has a
\* negative effective tile_count.
C27_CellsReferToTheirTilesNonNegative ==
  (pc = "done" /\ \A k \in 1..Len(tileset_list) : Count(k) >= 0) => EveryCellRefersToItsTile

\* C27 witness: two tilesets of 3 and 2 tiles, a cell of raw value 4 matched
\* to tile 0 of the second (first gid 4), emitted as 4, the record of id 4
\* naming texture 2 and the region of its tile 0
C27_Witness ==
  /\ pc = "done"
  /\ Len(tileset_list) = 2 /\ Count(1) = 3 /\ Count(2) = 2
  /\ tileset_list[2][2] = 4
  /\ Len(tscn.nodes) = 1
  /\ tscn.nodes[1].tile_data = << <<0, 1, 0>>, <<1, 4, 0>> >>
  /\ TokenAt(1, 0, 1) = Token(0, 4)
  /\ tres.tiles[4].id = 4 /\ tres.tiles[4].texture = 2
  /\ tres.tiles[4].region = <<0, 0, 8, 4>>


(* ------------------------------- C28 ---------------------------------- *)
\* the declared tileset the id-th discovered Shape belongs to, Shapes being
\* counted in tileset order and then discovery order, from 1
ShapeSet(id) ==
  CHOOSE k \in 1..Len(tileset_list) : ShapesBefore(k - 1) < id /\ id <= ShapesBefore(k)

\* the id-th discovered Shape
ShapeAt(id) == tileset_list[ShapeSet(id)][1].shapes[id - ShapesBefore(ShapeSet(id) - 1)]

\* the SubResource ids the x-th tile record refers to
Referenced(x) ==
  {tres.tiles[x].shapes[m] : m \in 1..Len(tres.tiles[x].shapes)}
  \cup (IF tres.tiles[x].shape = None THEN {} ELSE {tres.tiles[x].shape[1]})

\* C28: every SubResource id a tile record refers to, in its shape list or
\* as its primary shape, is the id of a declared collision sub-resource, lies
\* in 1..number of Shapes, and is the id of a Shape of the tileset and the
\* tile of the record: a Shape of one tileset is never attached to a tile of
\* another that has the same tile-local id.
C28_ShapeReferencesSound ==
  TilesWritten =>
    \A x \in 1..Len(tres.tiles) : \A id \in Referenced(x) :
      LET k == tres.tiles[x].texture
          i == x - TilesBefore(k - 1) - 1
      IN  /\ 1 <= id /\ id <= ShapesBefore(Len(tileset_list))
          /\ \E m \in 1..Len(tres.sub_resources) :
               /\ tres.sub_resources[m].id = id
               /\ ListsPoints(tres.sub_resources[m].points, ShapeAt(id))
          /\ ShapeSet(id) = k
          /\ ShapeAt(id)[1] = i

\* C28 witness: tile 0 of both tilesets owns a shape; the record of each
\* refers to a shape, and not to the same one
C28_Witness ==
  /\ pc = "done"
  /\ Len(tileset_list) = 2 /\ Count(1) = 3
  /\ HasShape(1, 0) /\ HasShape(2, 0)
  /\ Referenced(1) # {} /\ Referenced(4) # {}
  /\ Referenced(1) \cap Referenced(4) = {}
  /\ \A id \in Referenced(4) : ShapeSet(id) = 2


(* ------------------------------- C24 ---------------------------------- *)
\* the converter, given the path of the map, converts it
Converts(map) == ConvertCall(map).err = NoError

\* the .tres and the .tscn of the map are in its folder below the destination
Written(map, destination) ==
  LET full_destination == <<destination, MapName(TilemapCall(map))>>
  IN  {<<full_destination, "tres">>, <<full_destination, "tscn">>} \subseteq outputs

\* every pair of the batch whose map converts is written, but the pair the
\* batch failed at
OthersWritten ==
  \A m \in 1..Len(map_list), d \in 1..Len(destination_list) :
    (Converts(map_list[m]) /\ ~(raised # NoError /\ m = map_id + 1 /\ d = destination_id + 1))
      => Written(map_list[m], destination_list[d])

\* C24: in a batch of convert_maps each conversion is a unit of its own: when
\* the handler is left, a failure at one (map, destination) pair or none,
\* every other pair of the batch whose map converts has been converted and
\* written.
C24_FailureLeavesOthersConverted ==
  [][(app_pc = "converting" /\ app_pc' = "idle") => OthersWritten']_vars


(* ------------------------------- C29 ---------------------------------- *)
\* Tileset._generate_tres has run
CliGenerated == cli_pc \in {"folder", "prompt", "wipe", "images", "tres", "tscn", "done"}

\* the tile records that describe tile i of the tileset at position s (from
\* 1): its texture and the region of its column and row
Describing(s, i) ==
  LET set == cli_tileset_list[s][1]
  IN  {x \in 1..Len(cli_tres.tiles) :
         /\ cli_tres.tiles[x].texture = s
         /\ cli_tres.tiles[x].region =
              << (i % set.columns) * set.tile_size[1], (i \div set.columns) * set.tile_size[2],
                 set.tile_size[1], set.tile_size[2] >>}

RECURSIVE CliCountSum(_)
\* the sum of the tile_count of the first n tilesets of the map
CliCountSum(n) == IF n = 0 THEN 0 ELSE CliCountSum(n - 1) + cli_tileset_list[n][1].tile_count

\* C29: in tiled2hva.py the ids of the tile records of Tileset._generate_tres
\* are the merged ids of the Tilemap decoding: for every tileset position s
\* and tile-local index i < tile_count, the cell of raw value firstgid + i
\* decodes to (sum of the tile_count of the earlier tilesets) + i + 1, and the
\* record describing (s, i) has that id, with two or more tilesets as well.
C29_RecordIdsAreMergedIds ==
  CliGenerated =>
    \A s \in 1..Len(cli_tileset_list) :
      \A i \in 0..(cli_tileset_list[s][1].tile_count - 1) :
        LET merged == CliFindGlobalTile(cli_tileset_list, 1, cli_tileset_list[s][2] + i, 0, None)
        IN  /\ merged = Some(CliCountSum(s - 1) + i + 1)
            /\ Describing(s, i) # {}
            /\ \A x \in Describing(s, i) : cli_tres.tiles[x].id = merged[1]

\* the same of the first tileset of the map only
C29_FirstSetIdsAreMergedIds ==
  CliGenerated =>
    \A i \in 0..(cli_tileset_list[1][1].tile_count - 1) :
      \A x \in Describing(1, i) : Some(cli_tres.tiles[x].id) =
        CliFindGlobalTile(cli_tileset_list, 1, cli_tileset_list[1][2] + i, 0, None)

(* ------------------------------- C30 ---------------------------------- *)
\* none of what the folder held before the run is in it
Emptied == folder # None /\ folder[1] \cap Entries = {}

\* C30: the files of an existing destination folder are removed only after
\* the answer "y" to the wipe prompt; on any other answer the process is
\* killed with no file removed, no image copied and nothing written; and the
\* copies and the two writes happen only once the folder has been made or
\* emptied.
C30_WipeOnlyOnYes ==
  /\ removed # {} => response = Some("y")
  /\ (response # None /\ response # Some("y")) =>
       /\ cli_pc = "killed"
       /\ removed = {}
       /\ copied_files = 0
       /\ written = {}
       /\ folder[1] \subseteq Entries
  /\ (copied_files > 0 \/ written # {}) =>
       /\ Emptied
       /\ response \in {None, Some("y")}
       /\ listed = {}

\* C30 witness: a folder of two files, wiped on "y", the images copied and
\* both files written
C30_Witness ==
  /\ cli_pc = "done"
  /\ response = Some("y")
  /\ removed = {"old.tscn", "old.png"}
  /\ copied_files = 2
  /\ written = {"tres", "tscn"}
  /\ folder = Some({"a.png", "map.tres", "map.tscn"})

\* on "n" the run is killed at the prompt and the folder is as it was
C30_Refused ==
  /\ cli_pc = "killed"
  /\ response = Some("n")
  /\ folder = Some({"old.tscn", "old.png", "sub"})
====
